---------------------------- MODULE Spec2Model ----------------------------
(***************************************************************************)
(* A model of the dnd_homemade_agents turn orchestration: the LLM job      *)
(* queue and its worker (core/job_manager.py), the model-call gateway with *)
(* its retry loop (core/agent.py), the flat turn orchestrator              *)
(* (dnd/game_master.py) and the audio workers (core/job_manager.py,        *)
(* audio/tts_elevenlabs.py).                                               *)
(*                                                                         *)
(* All coroutines run on one asyncio event loop: a step of the model is    *)
(* the code a task runs between two suspension points.                     *)
(***************************************************************************)
EXTENDS Integers, Sequences, FiniteSets, TLC

(***************************************************************************)
(* Bounds of the model.                                                    *)
(***************************************************************************)
\* concurrent callers of enqueue_llm_job in SpecQueue
NProducers == 2
\* jobs the producers of SpecQueue issue in total
MaxJobs == 2
\* turns the game loop of Spec starts
MaxTurns == 2
\* audio items put on the queues of SpecAudio in total
MaxItems == 3
\* termination signals put on audio_queue in SpecAudio
MaxSentinels == 1
\* pieces a model string of SpecParse is made of
MaxTokens == 3
\* the highest round number the game state of SpecRounds reaches
MaxRounds == 4
\* the utterances of the orchestrator whose background task SpecSpeech runs
MaxSpoken == 3
\* execute_round is called again on a round only while the round has fewer
\* turns than this
MaxTurnsTaken == 3

(***************************************************************************)
(* Program constants.                                                      *)
(***************************************************************************)
\* call_model(..., max_retries: int = 3)
max_retries == 3
\* roll = int(random.uniform(0, 100))
RollRange == 100

(***************************************************************************)
(* Strings the code inspects are sequences of characters.                  *)
(***************************************************************************)
UpperChars == <<"A", "E", "G", "H", "I", "L", "M", "N", "O", "P", "T", "U">>
LowerChars == <<"a", "e", "g", "h", "i", "l", "m", "n", "o", "p", "t", "u">>

\* str.lower() on one character
LowerChar(c) ==
    IF \E i \in 1..Len(UpperChars) : UpperChars[i] = c
    THEN LowerChars[CHOOSE i \in 1..Len(UpperChars) : UpperChars[i] = c]
    ELSE c

\* str.lower()
Lower(s) == [i \in 1..Len(s) |-> LowerChar(s[i])]

\* max(a, b)
Max2(a, b) == IF a >= b THEN a ELSE b

\* str.split(sep): the list of the segments between the separators
RECURSIVE Split(_, _)
Split(s, sep) ==
    IF \A i \in 1..Len(s) : s[i] # sep
    THEN <<s>>
    ELSE LET k == CHOOSE i \in 1..Len(s) :
                      s[i] = sep /\ \A j \in 1..(i - 1) : s[j] # sep
         IN <<SubSeq(s, 1, k - 1)>> \o Split(SubSeq(s, k + 1, Len(s)), sep)

\* the model strings of the agents
OpenAIMini == <<"o", "p", "e", "n", "a", "i", "|", "g", "p", "t", "-", "4", "o", "-", "m", "i", "n", "i">>
OllamaLlama == <<"O", "l", "l", "a", "m", "a", "|", "l", "l", "a", "m", "a", "3">>
HumanModel == <<"H", "u", "m", "a", "n">>
BadModel == <<"g", "p", "t", "-", "4", "o">>

\* parse_model_string: provider, model_name = model_string.lower().split('|')
parse_model_string(model_string) ==
    LET parts == Split(Lower(model_string), "|")
    IN IF Len(parts) # 2
       THEN [ok |-> FALSE, provider |-> "ValueError", model_name |-> <<>>]
       ELSE IF parts[1] = <<"o", "p", "e", "n", "a", "i">>
            THEN [ok |-> TRUE, provider |-> "OPENAI", model_name |-> parts[2]]
            ELSE IF parts[1] = <<"o", "l", "l", "a", "m", "a">>
                 THEN [ok |-> TRUE, provider |-> "OLLAMA", model_name |-> parts[2]]
                 ELSE [ok |-> FALSE, provider |-> "ValueError", model_name |-> <<>>]

\* a test that takes no agent for a human
IsHuman_Never(agent) == FALSE

\* enqueue_llm_job: is_human = agent.model.lower() == "human"
IsHuman(agent) == Lower(agent.model) = <<"h", "u", "m", "a", "n">>

(***************************************************************************)
(* Values that flow between the stages.  A text an agent produced is       *)
(* identified by the job that produced it; None is Python's None.          *)
(***************************************************************************)
None == [kind |-> "None", id |-> 0, tier |-> "-"]
Text(id) == [kind |-> "text", id |-> id, tier |-> "-"]
Assessment(id, tier) == [kind |-> "assessment", id |-> id, tier |-> tier]
Typed(v) == [kind |-> "typed", id |-> 0, tier |-> v]
\* user_input_value = "<nothing>"
Nothing == [kind |-> "typed", id |-> 0, tier |-> "<nothing>"]

\* what a websocket client may type
Inputs == {"go"}

\* the tiers of the difficulty table, and one string outside it
Tiers == {"auto_succeed", "easy", "average", "hard", "super_hard", "auto_fail"}
AnyDifficulty == Tiers \cup {"medium"}

\* the callers of enqueue_llm_job: 0 is the orchestrator, the others the
\* producers of SpecQueue
Producers == 1..NProducers
Callers == 0..NProducers

VARIABLES
    \* core/job_manager.py
    llm_queue,          \* asyncio.Queue: the jobs waiting for the worker
    llm_unfinished,     \* llm_queue._unfinished_tasks
    result_list,        \* per caller: the single-slot result holder of its job
    cpc,                \* per caller: where it is in enqueue_llm_job
    joinWoken,          \* per caller: its llm_queue.join() wait has been released
    inputWoken,         \* per caller: its user_input_event.wait() has been released
    retval,             \* per caller: what enqueue_llm_job returned last
    myJob,              \* per caller: the id of the job it enqueued last
    user_input_event,   \* asyncio.Event: is it set
    user_input_value,
    worker,             \* llm_worker: [pc, job, attempt]
    call,               \* the current call_model: what it did so far
    nextId,             \* ids given to the jobs
    done,               \* the ids of the acknowledged jobs, in order
    raised              \* the ids of the jobs whose execute_task raised

VARIABLES
    \* dnd/game_master.py and the game loop of run_game.py
    very_first_time,    \* GameMaster.very_first_time
    gpc,                \* where the orchestrator is: the call it awaits
    turn,               \* the locals of the running execute_player_turn
    story,              \* the_story_so_far of the game loop
    turnNo,             \* turns the game loop has started
    stageLog,           \* the model calls of this turn: issued and returned
    failedStage,        \* the first stage of this turn whose model call raised
    spawned             \* the utterances handed to tts(), in order

VARIABLES
    \* the audio workers of core/job_manager.py and audio/tts_elevenlabs.py
    tts_queue,              \* asyncio.Queue of (text, voice_id)
    audio_playback_queue,   \* asyncio.Queue of file paths
    audio_queue,            \* asyncio.Queue of file paths, None ends the worker
    aworker,                \* per audio worker: [pc, item]
    enq,                    \* per audio queue: everything put on it, in order
    taken,                  \* per audio queue: what its worker dequeued, in order
    acked,                  \* per audio queue: what its worker acknowledged
    calls,                  \* per audio worker: the items it handed on, in order
    nextItem,               \* ids given to the audio items
    device,                 \* the workers whose call runs pydub's play
    failed                  \* per audio worker: the items whose processing raised

llmVars == <<llm_queue, llm_unfinished, result_list, cpc, joinWoken, inputWoken,
             retval, myJob, user_input_event, user_input_value, worker, call,
             nextId, done, raised>>

gmVars == <<very_first_time, gpc, turn, story, turnNo, stageLog, failedStage,
            spawned>>

audioVars == <<tts_queue, audio_playback_queue, audio_queue, aworker, enq, taken,
               acked, calls, nextItem, device, failed>>

VARIABLES
    \* a call of ModelCaller.parse_model_string
    model_string,       \* its argument
    parsed              \* what it returned or raised

pureVars == <<model_string, parsed>>

VARIABLES
    \* dnd_game: GameMaster.state (models/game_state.py) and execute_round
    current_round,      \* GameState.current_round: [number, turns_taken]
    round_summaries,    \* GameState.round_summaries
    last_actions,       \* GameState.last_actions: the names that have an entry
    rpc,                \* where execute_round is: [pc, i]
    tpc,                \* where its execute_player_turn is: [stage, other]
    feedback,           \* the local list feedback of the turn
    pkgLog,             \* the task_sequencer calls of the turn, in order
    current_situation   \* GameState.current_situation

pkgVars == <<current_round, round_summaries, last_actions, rpc, tpc, feedback,
             pkgLog, current_situation>>

VARIABLES
    \* run_game.py
    mpc                 \* where main is

mainVars == <<mpc>>

VARIABLES
    \* server.py and the background tasks of audio/tts_elevenlabs.py
    connected_clients,  \* the list of the accepted websockets
    accepted,           \* the websockets websocket_endpoint has accepted
    audio_tasks,        \* the enqueue_audio tasks that have started, in the
                        \* order elevenlabs_tts created them: [pc, i, client]
    sent,               \* per websocket: the utterances send_text was called
                        \* with, in call order (positions in spawned)
    disconnected        \* per websocket: whether websocket_endpoint has left
                        \* its loop, and how the remove of its finally
                        \* clause went: "no", "removed", "absent"

speechVars == <<connected_clients, accepted, audio_tasks, sent, disconnected>>

VARIABLES
    \* dnd_game: the state validators
    validation          \* what validate_game_state and GameState.validate_state
                        \* returned when they were last applied

valVars == <<validation>>

VARIABLES
    \* audio/tts_elevenlabs.py: flush_audio_queue
    flush               \* where the call is, and the playback_worker task it
                        \* created: [pc, worker |-> [pc, item]]

flushVars == <<flush>>

VARIABLES
    \* audio/tts_elevenlabs.py: the bookkeeping of the background tasks
    done_callbacks,     \* the calls of task_done_callback so far, in order:
                        \* [task, found], found = the list held the task
    gather              \* await_all_tasks_complete: where the call is and
                        \* the tasks it handed to asyncio.gather: [pc, tasks]

taskVars == <<done_callbacks, gather>>

VARIABLES
    \* dnd_game/core/game_master.py: _determine_success
    determined          \* the assessment the method is called with, and
                        \* what it returned: [assessment, called, success, roll]

successVars == <<determined>>

extVars == <<pureVars, pkgVars, mainVars, speechVars, valVars, flushVars, taskVars, successVars>>

vars == <<llmVars, gmVars, audioVars, extVars>>

NoJob == [id |-> 0]
NoCall == [attempts |-> 0, providerCalls |-> 0, failures |-> 0, backoffs |-> 0,
           slept |-> 0, outcome |-> "none", job |-> 0]

InitLLM ==
    /\ llm_queue = <<>>
    /\ llm_unfinished = 0
    /\ result_list = [c \in Callers |-> <<>>]
    /\ cpc = [c \in Callers |-> "idle"]
    /\ joinWoken = [c \in Callers |-> FALSE]
    /\ inputWoken = [c \in Callers |-> FALSE]
    /\ retval = [c \in Callers |-> None]
    /\ myJob = [c \in Callers |-> 0]
    /\ user_input_event = FALSE
    /\ user_input_value = Nothing
    /\ worker = [pc |-> "get", job |-> NoJob, attempt |-> 0]
    /\ call = NoCall
    /\ nextId = 1
    /\ done = <<>>
    /\ raised = {}

(***************************************************************************)
(* time.sleep blocks the thread of the event loop: while call_model sleeps *)
(* in its backoff no task of the loop runs.                                *)
(***************************************************************************)
LoopBlocked == worker.pc = "backoff"

(***************************************************************************)
(* Task: the placeholders of the template and the output schema.           *)
(***************************************************************************)
\* Task.response_model is None or a schema: "if response_model:"
HasSchema(task) == task.response_model # "None"

\* the values of the difficulty field a schema-valid response may carry:
\* DifficultyAssessment.difficulty is any string
SchemaValues(schema) ==
    IF schema = "DifficultyAssessment" THEN AnyDifficulty ELSE {"v"}

\* Task.get_required_inputs
get_required_inputs(task) == task.placeholders

\* a validation that finds no input missing
missing_inputs_None(task, kwargs) == {}

\* Agent.execute_task: missing_inputs
missing_inputs(task, kwargs) == get_required_inputs(task) \ DOMAIN kwargs

(***************************************************************************)
(* enqueue_llm_job, caller side.                                           *)
(***************************************************************************)
\* one result list shared by every job
HolderOf_Shared(job) == 1

\* the result holder a job carries: the caller's own result_list
HolderOf(job) == job.caller

\* enqueue_llm_job up to its first suspension: a human agent waits for the
\* input signal, any other job is put on the queue and the caller joins it
EnqueueLLM(c, agent, task, kwargs) ==
    IF IsHuman(agent)
    THEN /\ user_input_event' = FALSE
         /\ inputWoken' = [inputWoken EXCEPT ![c] = FALSE]
         /\ cpc' = [cpc EXCEPT ![c] = "wait_input"]
         /\ UNCHANGED <<llm_queue, llm_unfinished, result_list, joinWoken, myJob,
                        nextId>>
    ELSE /\ result_list' = [result_list EXCEPT ![c] = <<>>]
         /\ llm_queue' = Append(llm_queue,
                [id |-> nextId, caller |-> c, agent |-> agent, task |-> task,
                 kwargs |-> kwargs])
         /\ llm_unfinished' = llm_unfinished + 1
         /\ joinWoken' = [joinWoken EXCEPT ![c] = FALSE]
         /\ cpc' = [cpc EXCEPT ![c] = "wait_join"]
         /\ myJob' = [myJob EXCEPT ![c] = nextId]
         /\ nextId' = nextId + 1
         /\ UNCHANGED <<user_input_event, inputWoken>>

\* the caller may resume: its join or its event wait has been released
CanResume(c) ==
    \/ cpc[c] = "wait_join" /\ joinWoken[c]
    \/ cpc[c] = "wait_input" /\ inputWoken[c]

\* what enqueue_llm_job returns when the caller resumes
ResumeValue(c) ==
    IF cpc[c] = "wait_input"
    THEN user_input_value
    ELSE IF Len(result_list[c]) = 0 THEN None ELSE result_list[c][1]

\* enqueue_user_input_job, called by the websocket handler for "INPUT:" data
SubmitInput(v) ==
    /\ ~LoopBlocked
    /\ user_input_value' = Typed(v)
    /\ user_input_event' = TRUE
    /\ inputWoken' = [c \in Callers |-> inputWoken[c] \/ cpc[c] = "wait_input"]
    /\ UNCHANGED <<llm_queue, llm_unfinished, result_list, cpc, joinWoken, retval,
                   myJob, worker, call, nextId, done, raised>>
    /\ UNCHANGED <<gmVars, audioVars, extVars>>

(***************************************************************************)
(* llm_worker, with Agent.execute_task and ModelCaller.call_model inlined. *)
(***************************************************************************)
\* llm_queue.task_done(): the last acknowledgment releases every join()
TaskDone ==
    /\ llm_unfinished' = llm_unfinished - 1
    /\ joinWoken' = IF llm_unfinished = 1
                    THEN [c \in Callers |-> joinWoken[c] \/ cpc[c] = "wait_join"]
                    ELSE joinWoken
    /\ done' = Append(done, worker.job.id)

\* a worker whose handler does not acknowledge the job that raised
FinishRaised_NoAck(outcome) ==
    /\ worker' = [pc |-> "get", job |-> NoJob, attempt |-> 0]
    /\ call' = [call EXCEPT !.outcome = outcome]
    /\ raised' = raised \cup {worker.job.id}
    /\ UNCHANGED <<llm_unfinished, joinWoken, done, result_list>>

\* the job ends with an exception: it is printed, then task_done()
FinishRaised(outcome) ==
    /\ TaskDone
    /\ worker' = [pc |-> "get", job |-> NoJob, attempt |-> 0]
    /\ call' = [call EXCEPT !.outcome = outcome]
    /\ raised' = raised \cup {worker.job.id}
    /\ UNCHANGED result_list

\* a queue that hands out its newest item
QueuePop_Lifo(q) == [item |-> q[Len(q)], rest |-> SubSeq(q, 1, Len(q) - 1)]

\* asyncio.Queue.get(): the oldest item leaves the queue
QueuePop(q) == [item |-> Head(q), rest |-> Tail(q)]

\* await llm_queue.get(), then execute_task up to call_model's loop
W_Get ==
    /\ ~LoopBlocked
    /\ worker.pc = "get"
    /\ Len(llm_queue) > 0
    /\ llm_queue' = QueuePop(llm_queue).rest
    /\ worker' = [pc |-> "exec", job |-> QueuePop(llm_queue).item, attempt |-> 0]
    /\ call' = [NoCall EXCEPT !.job = QueuePop(llm_queue).item.id]
    /\ UNCHANGED <<llm_unfinished, result_list, cpc, joinWoken, inputWoken, retval,
                   myJob, user_input_event, user_input_value, nextId, done, raised>>
    /\ UNCHANGED <<gmVars, audioVars, extVars>>

\* execute_task: input validation, then parse_model_string in call_model
W_Exec ==
    /\ worker.pc = "exec"
    /\ IF missing_inputs(worker.job.task, worker.job.kwargs) # {}
       THEN FinishRaised("ValueError: Missing required inputs")
       ELSE IF ~parse_model_string(worker.job.agent.model).ok
            THEN FinishRaised("ValueError: Invalid model string format")
            ELSE /\ worker' = [worker EXCEPT !.pc = "attempt"]
                 /\ UNCHANGED <<llm_unfinished, result_list, joinWoken, call,
                                done, raised>>
    /\ UNCHANGED <<llm_queue, cpc, inputWoken, retval, myJob, user_input_event,
                   user_input_value, nextId>>
    /\ UNCHANGED <<gmVars, audioVars, extVars>>

\* a retry limit that is off by one
LastAttempt_OffByOne(attempt) == attempt = max_retries

\* if attempt == max_retries - 1: raise ModelCallError
LastAttempt(attempt) == attempt = max_retries - 1

\* what the provider answers to the job
Responses(job) ==
    IF HasSchema(job.task)
    THEN {Assessment(job.id, t) : t \in SchemaValues(job.task.response_model)}
    ELSE {Text(job.id)}

\* one iteration of call_model's loop on a provider that takes the request:
\* the provider call returns a result
W_AttemptOk ==
    /\ ~LoopBlocked
    /\ worker.pc = "attempt"
    /\ LET p == parse_model_string(worker.job.agent.model).provider
       IN p = "OPENAI" \/ (p = "OLLAMA" /\ ~HasSchema(worker.job.task))
    /\ \E r \in Responses(worker.job) :
          /\ call' = [call EXCEPT !.attempts = @ + 1, !.providerCalls = @ + 1,
                                  !.outcome = "ok"]
          /\ result_list' = [result_list EXCEPT ![HolderOf(worker.job)] =
                                 Append(@, r)]
    /\ TaskDone
    /\ worker' = [pc |-> "get", job |-> NoJob, attempt |-> 0]
    /\ UNCHANGED <<llm_queue, cpc, inputWoken, retval, myJob, user_input_event,
                   user_input_value, nextId, raised>>
    /\ UNCHANGED <<gmVars, audioVars, extVars>>

\* one iteration of call_model's loop whose provider call raises
W_AttemptFails ==
    /\ ~LoopBlocked
    /\ worker.pc = "attempt"
    /\ LET p == parse_model_string(worker.job.agent.model).provider
       IN p = "OPENAI" \/ (p = "OLLAMA" /\ ~HasSchema(worker.job.task))
    /\ IF LastAttempt(worker.attempt)
       THEN /\ TaskDone
            /\ worker' = [pc |-> "get", job |-> NoJob, attempt |-> 0]
            /\ call' = [call EXCEPT !.attempts = @ + 1, !.providerCalls = @ + 1,
                                    !.failures = @ + 1,
                                    !.outcome = "ModelCallError"]
            /\ raised' = raised \cup {worker.job.id}
       ELSE /\ worker' = [worker EXCEPT !.pc = "backoff"]
            /\ call' = [call EXCEPT !.attempts = @ + 1, !.providerCalls = @ + 1,
                                    !.failures = @ + 1]
            /\ UNCHANGED <<llm_unfinished, joinWoken, done, raised>>
    /\ UNCHANGED <<llm_queue, result_list, cpc, inputWoken, retval, myJob,
                   user_input_event, user_input_value, nextId>>
    /\ UNCHANGED <<gmVars, audioVars, extVars>>

\* one iteration of call_model's loop for a schema on Ollama: ModelCallError is
\* raised inside the try block, and the loop's own handler catches it
W_AttemptUnsupported ==
    /\ ~LoopBlocked
    /\ worker.pc = "attempt"
    /\ parse_model_string(worker.job.agent.model).provider = "OLLAMA"
    /\ HasSchema(worker.job.task)
    /\ IF LastAttempt(worker.attempt)
       THEN /\ TaskDone
            /\ worker' = [pc |-> "get", job |-> NoJob, attempt |-> 0]
            /\ call' = [call EXCEPT !.attempts = @ + 1,
                                    !.outcome = "ModelCallError"]
            /\ raised' = raised \cup {worker.job.id}
       ELSE /\ worker' = [worker EXCEPT !.pc = "backoff"]
            /\ call' = [call EXCEPT !.attempts = @ + 1]
            /\ UNCHANGED <<llm_unfinished, joinWoken, done, raised>>
    /\ UNCHANGED <<llm_queue, result_list, cpc, inputWoken, retval, myJob,
                   user_input_event, user_input_value, nextId>>
    /\ UNCHANGED <<gmVars, audioVars, extVars>>

\* 2 ** attempt
RECURSIVE Pow2(_)
Pow2(n) == IF n = 0 THEN 1 ELSE 2 * Pow2(n - 1)

\* sleep(2 ** attempt) returns; the loop goes on, or is exhausted and
\* call_model returns None
W_BackoffEnds ==
    /\ worker.pc = "backoff"
    /\ IF worker.attempt + 1 < max_retries
       THEN /\ worker' = [worker EXCEPT !.pc = "attempt", !.attempt = @ + 1]
            /\ call' = [call EXCEPT !.backoffs = @ + 1,
                                    !.slept = @ + Pow2(worker.attempt)]
            /\ UNCHANGED <<llm_unfinished, result_list, joinWoken, done>>
       ELSE /\ result_list' = [result_list EXCEPT ![HolderOf(worker.job)] =
                                   Append(@, None)]
            /\ TaskDone
            /\ worker' = [pc |-> "get", job |-> NoJob, attempt |-> 0]
            /\ call' = [call EXCEPT !.backoffs = @ + 1,
                                    !.slept = @ + Pow2(worker.attempt),
                                    !.outcome = "ok"]
    /\ UNCHANGED <<llm_queue, cpc, inputWoken, retval, myJob, user_input_event,
                   user_input_value, nextId, raised>>
    /\ UNCHANGED <<gmVars, audioVars, extVars>>

WorkerNext ==
    \/ W_Get
    \/ W_Exec
    \/ W_AttemptOk
    \/ W_AttemptFails
    \/ W_AttemptUnsupported
    \/ W_BackoffEnds

(***************************************************************************)
(* The audio workers.                                                      *)
(***************************************************************************)
\* an audio item: a text to speak or the path of an audio file
Item(id) == [kind |-> "item", id |-> id, tier |-> "-"]
\* a worker without an item in hand
NoItem == [kind |-> "noitem", id |-> 0, tier |-> "-"]

AudioQueues == {"tts", "playback", "audio"}

InitAudio ==
    /\ tts_queue = <<>>
    /\ audio_playback_queue = <<>>
    /\ audio_queue = <<>>
    /\ aworker = [q \in AudioQueues |-> [pc |-> "get", item |-> NoItem]]
    /\ enq = [q \in AudioQueues |-> <<>>]
    /\ taken = [q \in AudioQueues |-> <<>>]
    /\ acked = [q \in AudioQueues |-> <<>>]
    /\ calls = [q \in AudioQueues |-> <<>>]
    /\ nextItem = 1
    /\ device = {}
    /\ failed = [q \in AudioQueues |-> <<>>]

\* every call of a worker on its executor plays on the device
Plays_Always(q) == TRUE

\* does the call a worker makes on its executor run pydub's play:
\* playback_worker awaits play_audio_file, which runs play on the executor
\* of tts_elevenlabs; audio_playback_worker has its executor call the
\* coroutine function play_audio_file, which only creates a coroutine
Plays(q) == q = "audio"

\* task_done() of an audio queue, and what else an audio step leaves alone
AudioStep(q, pc, item, took, ack, handed) ==
    /\ aworker' = [aworker EXCEPT ![q] = [pc |-> pc, item |-> item]]
    /\ device' = IF pc = "play" /\ Plays(q) THEN device \cup {q}
                 ELSE device \ {q}
    /\ taken' = [taken EXCEPT ![q] = @ \o took]
    /\ acked' = [acked EXCEPT ![q] = @ \o ack]
    /\ calls' = [calls EXCEPT ![q] = @ \o handed]
    /\ UNCHANGED <<enq, nextItem>>
    /\ UNCHANGED <<llmVars, gmVars, extVars>>

\* the step raises nothing
NoFailure == UNCHANGED failed

\* a worker without a handler: the exception ends its task
Caught_Never(q) == FALSE

\* except Exception as e: the handler of the worker's loop body catches what
\* the processing of an item raises
Caught(q) == q \in AudioQueues

\* the processing of the item in hand raises: the handler prints the error,
\* the item is acknowledged and the worker goes on at pc
Failure(q, pc) ==
    /\ failed' = [failed EXCEPT ![q] = Append(@, aworker[q].item)]
    /\ IF Caught(q)
       THEN AudioStep(q, pc, NoItem, <<>>, <<aworker[q].item>>, <<>>)
       ELSE AudioStep(q, "crashed", aworker[q].item, <<>>, <<>>, <<>>)

\* a put on an audio queue
AudioPut(q, item) ==
    /\ enq' = [enq EXCEPT ![q] = Append(@, item)]
    /\ UNCHANGED <<aworker, taken, acked, calls, device, failed>>
    /\ UNCHANGED <<llmVars, gmVars, extVars>>

\* enqueue_tts_job
E_Tts ==
    /\ ~LoopBlocked
    /\ nextItem <= MaxItems
    /\ tts_queue' = Append(tts_queue, Item(nextItem))
    /\ nextItem' = nextItem + 1
    /\ AudioPut("tts", Item(nextItem))
    /\ UNCHANGED <<audio_playback_queue, audio_queue>>

\* enqueue_audio_playback_job
E_Playback ==
    /\ ~LoopBlocked
    /\ nextItem <= MaxItems
    /\ audio_playback_queue' = Append(audio_playback_queue, Item(nextItem))
    /\ nextItem' = nextItem + 1
    /\ AudioPut("playback", Item(nextItem))
    /\ UNCHANGED <<tts_queue, audio_queue>>

\* audio_queue.put(file_path)
E_Audio ==
    /\ ~LoopBlocked
    /\ nextItem <= MaxItems
    /\ audio_queue' = Append(audio_queue, Item(nextItem))
    /\ nextItem' = nextItem + 1
    /\ AudioPut("audio", Item(nextItem))
    /\ UNCHANGED <<tts_queue, audio_playback_queue>>

\* audio_queue.put(None): the termination signal
E_Sentinel ==
    /\ ~LoopBlocked
    /\ Cardinality({i \in 1..Len(enq["audio"]) : enq["audio"][i] = None})
           < MaxSentinels
    /\ audio_queue' = Append(audio_queue, None)
    /\ AudioPut("audio", None)
    /\ UNCHANGED <<tts_queue, audio_playback_queue, nextItem>>

\* tts_worker: await tts_queue.get()
T_Get ==
    /\ ~LoopBlocked
    /\ aworker["tts"].pc = "get"
    /\ Len(tts_queue) > 0
    /\ tts_queue' = QueuePop(tts_queue).rest
    /\ AudioStep("tts", "synth", QueuePop(tts_queue).item,
                 <<QueuePop(tts_queue).item>>, <<>>, <<>>)
    /\ NoFailure
    /\ UNCHANGED <<audio_playback_queue, audio_queue>>

\* tts_worker: text_to_speech_stream returns the file, or raises and the
\* item is acknowledged
T_Synth ==
    /\ ~LoopBlocked
    /\ aworker["tts"].pc = "synth"
    /\ \/ AudioStep("tts", "handle", aworker["tts"].item, <<>>, <<>>, <<>>)
             /\ NoFailure
       \/ Failure("tts", "get")
    /\ UNCHANGED <<tts_queue, audio_playback_queue, audio_queue>>

\* tts_worker: handle_audio_file sends the URL to the clients, or raises;
\* the item is acknowledged
T_Handle ==
    /\ ~LoopBlocked
    /\ aworker["tts"].pc = "handle"
    /\ \/ AudioStep("tts", "get", NoItem, <<>>, <<aworker["tts"].item>>,
                    <<aworker["tts"].item>>) /\ NoFailure
       \/ Failure("tts", "get")
    /\ UNCHANGED <<tts_queue, audio_playback_queue, audio_queue>>

\* audio_playback_worker: await audio_playback_queue.get()
A_Get ==
    /\ ~LoopBlocked
    /\ aworker["playback"].pc = "get"
    /\ Len(audio_playback_queue) > 0
    /\ audio_playback_queue' = QueuePop(audio_playback_queue).rest
    /\ AudioStep("playback", "play", QueuePop(audio_playback_queue).item,
                 <<QueuePop(audio_playback_queue).item>>, <<>>,
                 <<QueuePop(audio_playback_queue).item>>)
    /\ NoFailure
    /\ UNCHANGED <<tts_queue, audio_queue>>

\* audio_playback_worker: the executor call returns or raises; the item is
\* acknowledged and the worker sleeps
A_Played ==
    /\ ~LoopBlocked
    /\ aworker["playback"].pc = "play"
    /\ \/ AudioStep("playback", "sleep", NoItem, <<>>,
                    <<aworker["playback"].item>>, <<>>) /\ NoFailure
       \/ Failure("playback", "sleep")
    /\ UNCHANGED <<tts_queue, audio_playback_queue, audio_queue>>

\* audio_playback_worker: asyncio.sleep(1) is over
A_Wake ==
    /\ ~LoopBlocked
    /\ aworker["playback"].pc = "sleep"
    /\ AudioStep("playback", "get", NoItem, <<>>, <<>>, <<>>)
    /\ NoFailure
    /\ UNCHANGED <<tts_queue, audio_playback_queue, audio_queue>>

\* a worker that plays whatever it is given
IsSentinel_Never(file_path) == FALSE

\* if file_path is None
IsSentinel(file_path) == file_path = None

\* playback_worker: await audio_queue.get(); the termination signal is
\* acknowledged and ends the loop, a file is handed to play_audio_file.  A
\* getter that a put has woken runs behind the first step of a task that
\* was created before the put, and finds the queue as that step left it
B_Get ==
    /\ ~LoopBlocked
    /\ aworker["audio"].pc = "get"
    /\ Len(audio_queue) > 0
    /\ flush.worker.pc # "start"
    /\ audio_queue' = QueuePop(audio_queue).rest
    /\ LET file_path == QueuePop(audio_queue).item
       IN IF IsSentinel(file_path)
          THEN AudioStep("audio", "exited", NoItem, <<file_path>>,
                         <<file_path>>, <<>>)
          ELSE AudioStep("audio", "play", file_path, <<file_path>>, <<>>,
                         <<file_path>>)
    /\ NoFailure
    /\ UNCHANGED <<tts_queue, audio_playback_queue>>

\* playback_worker: play_audio_file returns or raises; the item is
\* acknowledged and the worker sleeps
B_Played ==
    /\ ~LoopBlocked
    /\ aworker["audio"].pc = "play"
    /\ \/ AudioStep("audio", "sleep", NoItem, <<>>, <<aworker["audio"].item>>,
                    <<>>) /\ NoFailure
       \/ Failure("audio", "sleep")
    /\ UNCHANGED <<tts_queue, audio_playback_queue, audio_queue>>

\* playback_worker: asyncio.sleep(1) is over
B_Wake ==
    /\ ~LoopBlocked
    /\ aworker["audio"].pc = "sleep"
    /\ AudioStep("audio", "get", NoItem, <<>>, <<>>, <<>>)
    /\ NoFailure
    /\ UNCHANGED <<tts_queue, audio_playback_queue, audio_queue>>


(***************************************************************************)
(* The session of run_game.py: the agents, the roster and the tasks of     *)
(* dnd/dnd_agents.py.                                                      *)
(***************************************************************************)
\* generated__situation_description = ""
EmptyStr == [kind |-> "empty", id |-> 0, tier |-> "-"]
\* a text the code itself writes
Fixed(s) == [kind |-> "fixed", id |-> 0, tier |-> s]

dm_agent == [name |-> "Dungeon Master", model |-> OpenAIMini]
enforcer_agent == [name |-> "Roleplay Enforcer", model |-> OpenAIMini]

\* DEFAULT_PLAYERS_MODEL = "openai|gpt-4o-mini"
DEFAULT_PLAYERS_MODEL == OpenAIMini
\* character_model="human"
BrussaeModel == <<"h", "u", "m", "a", "n">>

PlayerCharacter(name, character_model) ==
    [character_name |-> name,
     character_sheet |-> <<"sheet", name>>,
     character_agent |-> [name |-> name, model |-> character_model]]

\* player_characters = [brussae, shadowstep, eldara]
player_characters ==
    << PlayerCharacter("Brussae", BrussaeModel),
       PlayerCharacter("Shadowstep", DEFAULT_PLAYERS_MODEL),
       PlayerCharacter("Eldara", DEFAULT_PLAYERS_MODEL) >>

\* the tasks: the placeholders of the prompt template, the response model
task__describe_situation ==
    [name |-> "describe_situation",
     placeholders |-> {"the_story_so_far", "character_name", "character_sheet",
                       "other_characters"},
     response_model |-> "None"]
task__ask_questions ==
    [name |-> "ask_questions",
     placeholders |-> {"character_name", "the_story_so_far",
                       "what_the_dm_just_told_you", "character_sheet"},
     response_model |-> "None"]
task__answer_questions ==
    [name |-> "answer_questions",
     placeholders |-> {"character_name", "the_story_so_far",
                       "what_you_just_told_the_player", "character_sheet",
                       "questions"},
     response_model |-> "None"]
task__declare_intent ==
    [name |-> "declare_intent",
     placeholders |-> {"character_name", "the_story_so_far",
                       "what_the_dm_just_told_you", "character_sheet",
                       "player_questions", "dm_answers"},
     response_model |-> "None"]
task__provide_feedback ==
    [name |-> "provide_feedback",
     placeholders |-> {"other_character_name", "the_story_so_far",
                       "what_the_dm_just_told_you", "other_character_sheet",
                       "acting_character_name", "intended_action"},
     response_model |-> "None"]
task__make_decision ==
    [name |-> "make_decision",
     placeholders |-> {"character_name", "the_story_so_far",
                       "what_the_dm_just_told_you", "character_sheet",
                       "intended_action", "party_feedback"},
     response_model |-> "None"]
task__assess_difficulty ==
    [name |-> "assess_difficulty",
     placeholders |-> {"character_name", "the_story_so_far",
                       "what_you_just_told_the_player", "proposed_action",
                       "character_sheet"},
     response_model |-> "DifficultyAssessment"]
task__resolve_action ==
    [name |-> "resolve_action",
     placeholders |-> {"character_name", "the_story_so_far",
                       "what_you_just_told_the_player", "character_sheet",
                       "proposed_action", "difficulty_assessment", "roll",
                       "success_threshold", "did_roll_succeed"},
     response_model |-> "None"]
task__enforce_dm ==
    [name |-> "enforce_dm", placeholders |-> {"dm_output"},
     response_model |-> "None"]
task__enforce_player ==
    [name |-> "enforce_player", placeholders |-> {"player_output"},
     response_model |-> "None"]

(***************************************************************************)
(* GameMaster.execute_player_turn (dnd/game_master.py).  The orchestrator  *)
(* is caller 0 of enqueue_llm_job; it runs from one model call to the next *)
(* without suspending.                                                     *)
(***************************************************************************)
\* the locals of execute_player_turn (player and other_player are positions
\* in the roster)
NoTurn ==
    [player |-> 0, the_story_so_far |-> <<>>, this_turn_narrative |-> <<>>,
     generated__situation_description |-> EmptyStr,
     generated__questions |-> EmptyStr, generated__answers |-> EmptyStr,
     generated__intent |-> EmptyStr, generated__feedbacks |-> <<>>,
     generated__final_action |-> EmptyStr, original_text |-> EmptyStr,
     other_player |-> 0]

\* a segment appended to the narrative: who speaks and the value it is
\* formatted from
Seg(who, v) == [who |-> who, kind |-> v.kind, id |-> v.id]

InitGM ==
    /\ very_first_time = TRUE
    /\ gpc = "idle"
    /\ turn = NoTurn
    /\ story = <<Seg("initial_situation", Fixed("initial_situation"))>>
    /\ turnNo = 0
    /\ stageLog = <<>>
    /\ failedStage = "none"
    /\ spawned = <<>>

\* entries of stageLog
Call(stage) == [e |-> "call", stage |-> stage]
Ret(stage) == [e |-> "ret", stage |-> stage]

\* the orchestrator is between two turns
BetweenTurns == gpc \in {"idle", "returned"}

\* an orchestrator that goes on only when every utterance it handed to tts()
\* has been synthesized and sent
Resumed_AfterSpeech(pc) ==
    /\ ~LoopBlocked /\ gpc = pc /\ CanResume(0)
    /\ Len(audio_tasks) = Len(spawned)
    /\ \A k \in 1..Len(audio_tasks) : audio_tasks[k].pc = "done"

\* the model call the orchestrator awaits at pc has been processed
Resumed(pc) == ~LoopBlocked /\ gpc = pc /\ CanResume(0)

\* the job the orchestrator waited for raised in the worker
CallRaised == cpc[0] = "wait_join" /\ myJob[0] \in raised

\* what a step of the orchestrator leaves alone outside its own state
ResumedFrame(v) ==
    /\ retval' = [retval EXCEPT ![0] = v]
    /\ failedStage' = IF failedStage = "none" /\ CallRaised THEN gpc
                      ELSE failedStage
    /\ UNCHANGED <<turnNo, user_input_value, worker, call, done, raised>>
    /\ UNCHANGED <<audioVars, extVars>>

\* the turn goes on with locals t: the utterances of said are handed to
\* tts(), then the next model call is issued
GoOn(t, first_time, agent, task, kwargs, pc, said) ==
    /\ EnqueueLLM(0, agent, task, kwargs)
    /\ gpc' = pc
    /\ turn' = t
    /\ very_first_time' = first_time
    /\ spawned' = spawned \o said
    /\ stageLog' = (IF BetweenTurns THEN <<>> ELSE Append(stageLog, Ret(gpc)))
                       \o <<Call(pc)>>
    /\ UNCHANGED story

\* an exception leaves execute_player_turn and the first-turn flag is set
\* back
Raise_RollsBack ==
    /\ gpc' = "failed"
    /\ turn' = NoTurn
    /\ cpc' = [cpc EXCEPT ![0] = "idle"]
    /\ stageLog' = Append(stageLog, Ret(gpc))
    /\ very_first_time' = TRUE
    /\ UNCHANGED <<llm_queue, llm_unfinished, result_list, joinWoken, inputWoken,
                   myJob, nextId, user_input_event, story, spawned>>

\* an exception leaves execute_player_turn
Raise ==
    /\ gpc' = "failed"
    /\ turn' = NoTurn
    /\ cpc' = [cpc EXCEPT ![0] = "idle"]
    /\ stageLog' = Append(stageLog, Ret(gpc))
    /\ UNCHANGED <<llm_queue, llm_unfinished, result_list, joinWoken, inputWoken,
                   myJob, nextId, user_input_event, very_first_time, story,
                   spawned>>

\* a diff that can be computed for any two values
color_diff_raises_Never(original, edited) == FALSE

\* str.split() of original and edited: None has no split
color_diff_raises(original, edited) ==
    \/ original.kind \notin {"text", "typed", "fixed", "empty"}
    \/ edited.kind \notin {"text", "typed", "fixed", "empty"}

\* _format_other_characters
format_other_characters(active_player_name) ==
    SelectSeq([i \in 1..Len(player_characters) |->
                   player_characters[i].character_name],
              LAMBDA n : n # active_player_name)

\* the end of stage 1 and stage 2 up to its model call: the description
\* joins the narrative, the first-turn flag is cleared, the player is asked
\* for questions
AskQuestions(t, said) ==
    LET p == player_characters[t.player]
        t2 == [t EXCEPT !.this_turn_narrative =
                   Append(@, Seg("DM", t.generated__situation_description))]
    IN GoOn(t2, FALSE, p.character_agent, task__ask_questions,
            [character_name |-> p.character_name,
             the_story_so_far |-> t.the_story_so_far,
             what_the_dm_just_told_you |-> t.generated__situation_description,
             character_sheet |-> p.character_sheet],
            "ask", said)

\* a narrative that starts with this turn's segments only
StartNarrative_Empty(the_story_so_far) == <<>>

\* this_turn_narrative = the_story_so_far + "\n"
StartNarrative(the_story_so_far) == the_story_so_far

\* the game loop calls execute_player_turn for the next player of the
\* roster; stage 1 runs only while very_first_time is set
G_StartTurn ==
    /\ ~LoopBlocked
    /\ BetweenTurns
    /\ turnNo < MaxTurns
    /\ turnNo < Len(player_characters)
    /\ turnNo' = turnNo + 1
    /\ LET p == player_characters[turnNo + 1]
           t == [NoTurn EXCEPT !.player = turnNo + 1,
                               !.the_story_so_far = story,
                               !.this_turn_narrative =
                                   StartNarrative(story)]
       IN IF very_first_time
          THEN GoOn(t, very_first_time, dm_agent, task__describe_situation,
                    [the_story_so_far |-> story,
                     character_name |-> p.character_name,
                     character_sheet |-> p.character_sheet,
                     other_characters |->
                         format_other_characters(p.character_name)],
                    "describe", <<>>)
          ELSE AskQuestions(t, <<>>)
    /\ failedStage' = "none"
    /\ UNCHANGED <<retval, user_input_value, worker, call, done, raised>>
    /\ UNCHANGED <<audioVars, extVars>>

\* enforce_dm up to its model call, on the narrator's text of stage 1, 3 or 8
EnforceDMPc ==
    [describe |-> "enforce_describe", answer |-> "enforce_answer",
     resolve |-> "enforce_resolve"]

G_EnforceDM ==
    \E pc \in DOMAIN EnforceDMPc :
        /\ Resumed(pc)
        /\ GoOn([turn EXCEPT !.original_text = ResumeValue(0)], very_first_time,
                enforcer_agent, task__enforce_dm, [dm_output |-> ResumeValue(0)],
                EnforceDMPc[pc], <<>>)
        /\ ResumedFrame(ResumeValue(0))

\* enforce_player up to its model call, on the player's text of stage 5 or 6
EnforcePlayerPc ==
    [feedback |-> "enforce_feedback", decide |-> "enforce_decide"]

G_EnforcePlayer ==
    \E pc \in DOMAIN EnforcePlayerPc :
        /\ Resumed(pc)
        /\ GoOn([turn EXCEPT !.original_text = ResumeValue(0)], very_first_time,
                enforcer_agent, task__enforce_player,
                [player_output |-> ResumeValue(0)], EnforcePlayerPc[pc], <<>>)
        /\ ResumedFrame(ResumeValue(0))

\* stage 1 after the enforcer's call: color_diff, tts, then stage 2
G_DescribeEnforced ==
    /\ Resumed("enforce_describe")
    /\ LET edited_text == ResumeValue(0)
       IN /\ IF color_diff_raises(turn.original_text, edited_text)
             THEN Raise
             ELSE AskQuestions(
                      [turn EXCEPT !.generated__situation_description =
                                       edited_text],
                      <<edited_text>>)
          /\ ResumedFrame(edited_text)

\* stage 2 after the player's call, stage 3 up to the narrator's call
G_Asked ==
    /\ Resumed("ask")
    /\ LET generated__questions == ResumeValue(0)
           p == player_characters[turn.player]
           t2 == [turn EXCEPT !.generated__questions = generated__questions,
                              !.this_turn_narrative =
                                  Append(@, Seg(p.character_name,
                                                generated__questions))]
       IN /\ GoOn(t2, very_first_time, dm_agent, task__answer_questions,
                  [character_name |-> p.character_name,
                   the_story_so_far |-> turn.the_story_so_far,
                   what_you_just_told_the_player |->
                       turn.generated__situation_description,
                   character_sheet |-> p.character_sheet,
                   questions |-> generated__questions],
                  "answer", <<>>)
          /\ ResumedFrame(generated__questions)

\* stage 3 after the enforcer's call, stage 4 up to the player's call
G_AnswerEnforced ==
    /\ Resumed("enforce_answer")
    /\ LET edited_text == ResumeValue(0)
           p == player_characters[turn.player]
           t2 == [turn EXCEPT !.generated__answers = edited_text,
                              !.this_turn_narrative =
                                  Append(@, Seg("DM", edited_text))]
       IN /\ IF color_diff_raises(turn.original_text, edited_text)
             THEN Raise
             ELSE GoOn(t2, very_first_time, p.character_agent,
                       task__declare_intent,
                       [character_name |-> p.character_name,
                        the_story_so_far |-> turn.the_story_so_far,
                        what_the_dm_just_told_you |->
                            turn.generated__situation_description,
                        character_sheet |-> p.character_sheet,
                        player_questions |-> turn.generated__questions,
                        dm_answers |-> edited_text],
                       "intent", <<>>)
          /\ ResumedFrame(edited_text)

\* the next player of the roster behind position after that is not the
\* acting player (0 when there is none)
NextOther(t, after) ==
    LET others == {i \in (after + 1)..Len(player_characters) :
                       player_characters[i].character_name
                           # player_characters[t.player].character_name}
    IN IF others = {} THEN 0
       ELSE CHOOSE i \in others : \A j \in others : i <= j

\* a feedback call that is given the narrative of the turn so far
PeerStory_Narrative(t) == t.this_turn_narrative

\* the story a peer's feedback call is given: the_story_so_far, the argument
\* of execute_player_turn
PeerStory(t) == t.the_story_so_far

\* the loop of stage 5 from roster position after up to the next feedback
\* call; when the roster is exhausted, stage 6 up to the player's call
FeedbackLoop(t, after, said) ==
    LET p == player_characters[t.player]
        o == NextOther(t, after)
    IN IF o # 0
       THEN GoOn([t EXCEPT !.other_player = o], very_first_time,
                 player_characters[o].character_agent, task__provide_feedback,
                 [other_character_name |-> player_characters[o].character_name,
                  the_story_so_far |-> PeerStory(t),
                  what_the_dm_just_told_you |->
                      t.generated__situation_description,
                  other_character_sheet |-> player_characters[o].character_sheet,
                  acting_character_name |-> p.character_name,
                  intended_action |-> t.generated__intent],
                 "feedback",
                 Append(said, Fixed(player_characters[o].character_name)))
       ELSE GoOn(t, very_first_time, p.character_agent, task__make_decision,
                 [character_name |-> p.character_name,
                  the_story_so_far |-> t.the_story_so_far,
                  what_the_dm_just_told_you |->
                      t.generated__situation_description,
                  character_sheet |-> p.character_sheet,
                  intended_action |-> t.generated__intent,
                  party_feedback |-> t.generated__feedbacks],
                 "decide", said)

\* stage 4 after the player's call, stage 5 up to the first peer's call
G_Intent ==
    /\ Resumed("intent")
    /\ LET generated__intent == ResumeValue(0)
           p == player_characters[turn.player]
           t2 == [turn EXCEPT !.generated__intent = generated__intent,
                              !.this_turn_narrative =
                                  Append(@, Seg(p.character_name,
                                                generated__intent))]
       IN /\ FeedbackLoop(t2, 0, <<generated__intent>>)
          /\ ResumedFrame(generated__intent)

\* stage 5 after the enforcer's call for one peer: the feedback is recorded,
\* then the loop goes on
G_FeedbackEnforced ==
    /\ Resumed("enforce_feedback")
    /\ LET edited_text == ResumeValue(0)
           other_name == player_characters[turn.other_player].character_name
           t2 == [turn EXCEPT !.generated__feedbacks =
                                  Append(@, <<other_name, edited_text>>),
                              !.this_turn_narrative =
                                  Append(@, Seg(other_name, edited_text))]
       IN /\ IF color_diff_raises(turn.original_text, edited_text)
             THEN Raise
             ELSE FeedbackLoop(t2, turn.other_player, <<edited_text>>)
          /\ ResumedFrame(edited_text)

\* stage 6 after the enforcer's call, stage 7 up to the narrator's call
G_DecideEnforced ==
    /\ Resumed("enforce_decide")
    /\ LET edited_text == ResumeValue(0)
           p == player_characters[turn.player]
           t2 == [turn EXCEPT !.generated__final_action = edited_text,
                              !.this_turn_narrative =
                                  Append(@, Seg(p.character_name, edited_text))]
       IN /\ IF color_diff_raises(turn.original_text, edited_text)
             THEN Raise
             ELSE GoOn(t2, very_first_time, dm_agent, task__assess_difficulty,
                       [character_name |-> p.character_name,
                        the_story_so_far |-> turn.the_story_so_far,
                        what_you_just_told_the_player |->
                            turn.generated__situation_description,
                        proposed_action |-> edited_text,
                        character_sheet |-> p.character_sheet],
                       "assess", <<edited_text>>)
          /\ ResumedFrame(edited_text)

\* difficulty_thresholds = {...}.get
difficulty_table ==
    [auto_succeed |-> 100, easy |-> 80, average |-> 60, hard |-> 40,
     super_hard |-> 20, auto_fail |-> 0]

\* dict.get: the value of the key, None for a key the table does not have
difficulty_thresholds(difficulty) ==
    IF difficulty \in DOMAIN difficulty_table
    THEN [isNone |-> FALSE, value |-> difficulty_table[difficulty]]
    ELSE [isNone |-> TRUE, value |-> 0]

\* a roll that succeeds only below the threshold
DidRollSucceed_Strict(roll, success_threshold) == roll < success_threshold

\* did_roll_succeed = roll <= success_threshold
DidRollSucceed(roll, success_threshold) == roll <= success_threshold

\* stage 7 after the narrator's call, stage 8 up to the narrator's call:
\* the threshold lookup, the roll and the resolution call
G_Assessed ==
    /\ Resumed("assess")
    /\ LET generated__difficulty_assessment == ResumeValue(0)
           p == player_characters[turn.player]
           success_threshold ==
               difficulty_thresholds(generated__difficulty_assessment.tier)
       IN /\ IF \/ generated__difficulty_assessment.kind # "assessment"
                \/ success_threshold.isNone
             THEN Raise
             ELSE \E roll \in 0..(RollRange - 1) :
                    LET did_roll_succeed ==
                            DidRollSucceed(roll, success_threshold.value)
                        outcome == Fixed(IF did_roll_succeed THEN "succeeds"
                                         ELSE "fails")
                        t2 == [turn EXCEPT !.this_turn_narrative =
                                   @ \o <<Seg("DM",
                                              generated__difficulty_assessment),
                                          Seg("Roll", Fixed("roll")),
                                          Seg(p.character_name, outcome)>>]
                    IN GoOn(t2, very_first_time, dm_agent, task__resolve_action,
                            [character_name |-> p.character_name,
                             the_story_so_far |-> turn.the_story_so_far,
                             what_you_just_told_the_player |->
                                 turn.generated__situation_description,
                             character_sheet |-> p.character_sheet,
                             proposed_action |-> turn.generated__final_action,
                             difficulty_assessment |->
                                 generated__difficulty_assessment,
                             roll |-> roll,
                             success_threshold |-> success_threshold.value,
                             did_roll_succeed |-> did_roll_succeed],
                            "resolve", <<outcome>>)
          /\ ResumedFrame(generated__difficulty_assessment)

\* stage 8 after the enforcer's call: the turn returns its narrative to the
\* game loop
G_ResolveEnforced ==
    /\ Resumed("enforce_resolve")
    /\ LET edited_text == ResumeValue(0)
       IN /\ IF color_diff_raises(turn.original_text, edited_text)
             THEN Raise
             ELSE /\ gpc' = "returned"
                  /\ story' = Append(turn.this_turn_narrative,
                                     Seg("DM", edited_text))
                  /\ turn' = NoTurn
                  /\ cpc' = [cpc EXCEPT ![0] = "idle"]
                  /\ spawned' = Append(spawned, edited_text)
                  /\ stageLog' = Append(stageLog, Ret(gpc))
                  /\ UNCHANGED <<llm_queue, llm_unfinished, result_list,
                                 joinWoken, inputWoken, myJob, nextId,
                                 user_input_event, very_first_time>>
          /\ ResumedFrame(edited_text)

(***************************************************************************)
(* Spec: the game loop runs turns for the players of the roster, with the  *)
(* LLM worker and the websocket handler on the same event loop.  No agent  *)
(* of the session uses the Ollama provider.                                *)
(***************************************************************************)
\* no call of parse_model_string has been made
NotParsed == [ok |-> FALSE, provider |-> "not called", model_name |-> <<>>]

InitPure ==
    /\ model_string = <<>>
    /\ parsed = NotParsed

\* Round(number=...)
Round(number) ==
    [number |-> number, turns_taken |-> <<>>, round_context |-> <<>>]

\* the situation text the turn of a player leaves, and the initial one
Situation(by, number) == [by |-> by, number |-> number]

\* dnd_game GameMaster.__init__: GameState(current_round=Round(number=1), ...)
InitPkg ==
    /\ current_round = Round(1)
    /\ round_summaries = <<>>
    /\ last_actions = {}
    /\ rpc = [pc |-> "idle", i |-> 0]
    /\ tpc = [stage |-> 0, other |-> 0]
    /\ feedback = <<>>
    /\ pkgLog = <<>>
    /\ current_situation = Situation("initial_situation", 0)

\* the validators have not been applied
NotValidated == [applied |-> FALSE]

InitVal == validation = NotValidated

\* main has been scheduled and has not run yet
InitMain == mpc = "start"

\* flush_audio_queue has not been called: no other playback_worker task
NotFlushing == [pc |-> "idle", worker |-> [pc |-> "none", item |-> NoItem]]

InitFlush == flush = NotFlushing

\* background_tasks = [], and nothing awaits the tasks
NotGathering == [pc |-> "idle", tasks |-> {}]

InitTasks ==
    /\ done_callbacks = <<>>
    /\ gather = NotGathering

\* _determine_success has not been called with assessment
NotDetermined(assessment) ==
    [assessment |-> assessment, called |-> FALSE, success |-> FALSE, roll |-> 0]

\* no assessment has been made
InitSuccess ==
    determined = NotDetermined([difficulty |-> "-", auto_resolve |-> FALSE])

\* the websockets that connect during the session
Clients == {"ws1", "ws2"}

\* connected_clients = []
InitSpeech ==
    /\ connected_clients = <<>>
    /\ accepted = {}
    /\ audio_tasks = <<>>
    /\ sent = [c \in Clients |-> <<>>]
    /\ disconnected = [c \in Clients |-> "no"]

Init ==
    InitLLM /\ InitGM /\ InitAudio /\ InitPure /\ InitPkg /\ InitMain
        /\ InitSpeech /\ InitVal /\ InitFlush /\ InitTasks /\ InitSuccess

Next ==
    \/ G_StartTurn
    \/ G_EnforceDM
    \/ G_EnforcePlayer
    \/ G_DescribeEnforced
    \/ G_Asked
    \/ G_AnswerEnforced
    \/ G_Intent
    \/ G_FeedbackEnforced
    \/ G_DecideEnforced
    \/ G_Assessed
    \/ G_ResolveEnforced
    \/ \E v \in Inputs : SubmitInput(v)
    \/ W_Get
    \/ W_Exec
    \/ W_AttemptOk
    \/ W_AttemptFails
    \/ W_BackoffEnds

Spec == Init /\ [][Next]_vars

(***************************************************************************)
(* SpecAudio: items and the termination signal are put on the audio queues *)
(* while the three workers run.                                            *)
(***************************************************************************)
NextAudio ==
    \/ E_Tts
    \/ E_Playback
    \/ E_Audio
    \/ E_Sentinel
    \/ T_Get
    \/ T_Synth
    \/ T_Handle
    \/ A_Get
    \/ A_Played
    \/ A_Wake
    \/ B_Get
    \/ B_Played
    \/ B_Wake

SpecAudio == Init /\ [][NextAudio]_vars



(***************************************************************************)
(* SpecQueue: several tasks call enqueue_llm_job concurrently, with any    *)
(* agent and task, while the websocket handler delivers typed input.       *)
(***************************************************************************)
QTaskText == [name |-> "text_task", placeholders |-> {"x"}, response_model |-> "None"]
QTaskSchema == [name |-> "schema_task", placeholders |-> {"x"}, response_model |-> "QSchema"]

\* the (agent, task, kwargs) triples the producers call enqueue_llm_job with
QCalls ==
    { <<[name |-> "a_openai", model |-> OpenAIMini], QTaskText, [x |-> 1]>>,
      <<[name |-> "a_openai", model |-> OpenAIMini], QTaskSchema, [x |-> 1]>>,
      <<[name |-> "a_ollama", model |-> OllamaLlama], QTaskText, [x |-> 1]>>,
      <<[name |-> "a_ollama", model |-> OllamaLlama], QTaskSchema, [x |-> 1]>>,
      <<[name |-> "a_bad", model |-> BadModel], QTaskText, [x |-> 1]>>,
      <<[name |-> "a_openai", model |-> OpenAIMini], QTaskText, [y |-> 1]>>,
      <<[name |-> "a_human", model |-> HumanModel], QTaskText, [x |-> 1]>> }

\* a producer calls enqueue_llm_job
P_Call(p) ==
    /\ ~LoopBlocked
    /\ cpc[p] = "idle"
    /\ nextId <= MaxJobs
    /\ \E q \in QCalls : EnqueueLLM(p, q[1], q[2], q[3])
    /\ UNCHANGED <<retval, user_input_value, worker, call, done, raised>>
    /\ UNCHANGED <<gmVars, audioVars, extVars>>

\* enqueue_llm_job returns to the producer
P_Return(p) ==
    /\ ~LoopBlocked
    /\ CanResume(p)
    /\ retval' = [retval EXCEPT ![p] = ResumeValue(p)]
    /\ cpc' = [cpc EXCEPT ![p] = "idle"]
    /\ UNCHANGED <<llm_queue, llm_unfinished, result_list, joinWoken, inputWoken,
                   myJob, user_input_event, user_input_value, worker, call,
                   nextId, done, raised>>
    /\ UNCHANGED <<gmVars, audioVars, extVars>>

NextQueue ==
    \/ \E p \in Producers : P_Call(p)
    \/ \E p \in Producers : P_Return(p)
    \/ \E v \in Inputs : SubmitInput(v)
    \/ WorkerNext

SpecQueue == Init /\ [][NextQueue]_vars

(***************************************************************************)
(* Claims checked under SpecQueue.                                         *)
(***************************************************************************)
Range(seq) == {seq[i] : i \in 1..Len(seq)}
Count(seq, x) == Cardinality({i \in 1..Len(seq) : seq[i] = x})

\* C3: call_model returns the provider's result after exactly k+1 provider
\* attempts when the first k < max_retries attempts fail, and raises
\* ModelCallError after exactly max_retries attempts when every attempt fails;
\* it never makes more than max_retries attempts.
C3_RetryBudget ==
    /\ call.attempts <= max_retries
    /\ call.providerCalls <= call.attempts
    /\ call.outcome = "ok" =>
          /\ call.failures < max_retries
          /\ call.providerCalls = call.failures + 1
          /\ \A p \in Producers : myJob[p] = call.job =>
                /\ Len(result_list[p]) = 1
                /\ result_list[p][1].kind \in {"text", "assessment"}
                /\ result_list[p][1].id = call.job
    /\ call.outcome = "ModelCallError" =>
          /\ call.attempts = max_retries
          /\ call.providerCalls > 0 =>
                call.providerCalls = max_retries /\ call.failures = max_retries
          /\ \A p \in Producers : myJob[p] = call.job => result_list[p] = <<>>

\* a call that succeeded on its last allowed attempt
C3_Witness ==
    call.outcome = "ok" /\ call.failures = max_retries - 1 /\ call.providerCalls = max_retries

\* C4 (as claimed): a schema-constrained request on Ollama fails on the first
\* attempt, with no retry and no backoff.
C4_FailsImmediately ==
    (worker.pc # "get"
        /\ parse_model_string(worker.job.agent.model).provider = "OLLAMA"
        /\ HasSchema(worker.job.task))
    => (worker.pc \in {"exec", "attempt"} /\ worker.attempt = 0
        /\ call.backoffs = 0)

\* C5 (as claimed): while call_model is in its backoff the other tasks of the
\* event loop can take their steps.
C5_OthersRunDuringBackoff ==
    worker.pc = "backoff" =>
        /\ ENABLED (\E v \in Inputs : SubmitInput(v))
        /\ \A p \in Producers : CanResume(p) => ENABLED P_Return(p)

\* C7: every job is executed exactly once by the worker, a result holder only
\* ever holds the worker's result for its own job, and a caller returns the
\* value produced for the job it enqueued.
C7_OwnResultOnce ==
    /\ \A id \in 1..(nextId - 1) :
          Count(done, id) + Count([i \in 1..Len(llm_queue) |-> llm_queue[i].id], id)
              + (IF worker.job.id = id THEN 1 ELSE 0) = 1
    /\ \A p \in Producers :
          /\ Len(result_list[p]) <= 1
          /\ \A i \in 1..Len(result_list[p]) :
                result_list[p][i].kind # "None" => result_list[p][i].id = myJob[p]
          /\ Len(result_list[p]) > 0 => Count(done, myJob[p]) = 1
          /\ (cpc[p] = "idle" /\ retval[p].kind \in {"text", "assessment"}) =>
                /\ retval[p].id = myJob[p]
                /\ result_list[p] = <<retval[p]>>
                /\ Count(done, myJob[p]) = 1

\* two producers had jobs outstanding together and both are back with the text
\* of their own job
C7_Witness ==
    /\ Len(done) = 2
    /\ \A p \in {1, 2} : cpc[p] = "idle" /\ retval[p].kind = "text"
                          /\ retval[p].id = myJob[p]
    /\ myJob[1] # myJob[2]

\* C8 (as claimed): a producer in enqueue_llm_job resumes once the worker has
\* acknowledged its own job, whatever other jobs are queued.
C8_ResumesOnOwnAck ==
    \A p \in Producers :
        (cpc[p] = "wait_join" /\ myJob[p] \in Range(done)) => joinWoken[p]

(***************************************************************************)
(* Claims checked under Spec.                                              *)
(***************************************************************************)
\* the stages of a turn in the claimed order, for a roster with
\* Len(player_characters) - 1 peers
C1_StageOrder ==
    <<"describe", "enforce_describe", "ask", "answer", "enforce_answer",
      "intent">>
    \o [i \in 1..(2 * (Len(player_characters) - 1)) |->
            IF i % 2 = 1 THEN "feedback" ELSE "enforce_feedback"]
    \o <<"decide", "enforce_decide", "assess", "resolve", "enforce_resolve">>

\* C1 (as claimed): a turn that returns has issued the model calls of the
\* stages describe-situation, ask-questions, answer-questions,
\* declare-intent, peer-feedback (once per other player), final-decision,
\* assess-difficulty, resolve in exactly this order, each call (enforcement
\* included) returning before the next one is issued.
C1_StagesInOrder ==
    gpc = "returned" =>
        stageLog = [i \in 1..(2 * Len(C1_StageOrder)) |->
                        IF i % 2 = 1 THEN Call(C1_StageOrder[(i + 1) \div 2])
                        ELSE Ret(C1_StageOrder[i \div 2])]

\* the threshold table of the claim
C2_Threshold ==
    [auto_succeed |-> 100, easy |-> 80, average |-> 60, hard |-> 40,
     super_hard |-> 20, auto_fail |-> 0]

\* the resolution call carries a tier of the table, the threshold of that
\* tier and the flag roll <= threshold
C2_ConsistentCall(job) ==
    job.task.name = "resolve_action" =>
        /\ job.kwargs.difficulty_assessment.tier \in DOMAIN C2_Threshold
        /\ job.kwargs.roll \in 0..(RollRange - 1)
        /\ job.kwargs.success_threshold =
               C2_Threshold[job.kwargs.difficulty_assessment.tier]
        /\ job.kwargs.did_roll_succeed =
               (job.kwargs.roll
                    <= C2_Threshold[job.kwargs.difficulty_assessment.tier])

\* C2: in the resolve stage the success flag is true iff roll <= threshold
\* of the assessed tier, with the table auto_succeed 100, easy 80, average
\* 60, hard 40, super_hard 20, auto_fail 0, and the narrator's resolution
\* call receives exactly that roll, threshold and flag.
C2_ResolveUsesTable ==
    /\ \A i \in 1..Len(llm_queue) : C2_ConsistentCall(llm_queue[i])
    /\ worker.job.id # 0 => C2_ConsistentCall(worker.job)

\* the resolution call of an action assessed average with the roll on the
\* threshold: it is flagged a success
C2_Witness ==
    /\ worker.job.id # 0
    /\ worker.job.task.name = "resolve_action"
    /\ worker.job.kwargs.difficulty_assessment.tier = "average"
    /\ worker.job.kwargs.roll = 60
    /\ worker.job.kwargs.success_threshold = 60
    /\ worker.job.kwargs.did_roll_succeed = TRUE

\* C6 (as claimed): when the model call of a stage has raised, the turn is
\* aborted at that stage: the orchestrator issues no further call and the
\* exception has left execute_player_turn.
C6_FailureAbortsTurn ==
    failedStage # "none" => gpc = "failed"

(***************************************************************************)
(* Claims checked under SpecAudio.                                         *)
(***************************************************************************)
IsPrefix(s, t) == Len(s) <= Len(t) /\ \A i \in 1..Len(s) : s[i] = t[i]

\* C9: on each audio queue the worker takes the items in the order they
\* were enqueued, whatever time the processing of an item takes, hands
\* them on (delivery to the clients, play call) in that order, and never
\* takes item n+1 before it has acknowledged item n.
C9_FifoOneAtATime ==
    \A q \in AudioQueues :
        /\ IsPrefix(taken[q], enq[q])
        /\ IsPrefix(acked[q], taken[q])
        /\ Len(taken[q]) - Len(acked[q]) <= 1
        /\ aworker[q].pc = "get" => acked[q] = taken[q]
        /\ \A i \in 1..Len(calls[q]) :
              /\ \E k \in 1..Len(taken[q]) : taken[q][k] = calls[q][i]
              /\ \A j \in 1..(i - 1) : calls[q][j].id < calls[q][i].id

\* three texts were enqueued for speech and delivered in that order
C9_Witness ==
    /\ enq["tts"] = <<Item(1), Item(2), Item(3)>>
    /\ calls["tts"] = <<Item(1), Item(2), Item(3)>>
    /\ acked["tts"] = enq["tts"]

\* the position of the first termination signal put on audio_queue
\* (0 when none was put)
C10_SentinelPos ==
    IF \E i \in 1..Len(enq["audio"]) : enq["audio"][i] = None
    THEN CHOOSE i \in 1..Len(enq["audio"]) :
             /\ enq["audio"][i] = None
             /\ \A j \in 1..(i - 1) : enq["audio"][j] # None
    ELSE 0

\* C10: the playback worker never plays the termination signal; once it has
\* taken the signal it has played exactly the items enqueued before it, in
\* their order, its loop has ended, and it processes nothing that was
\* enqueued after the signal.
C10_SentinelEndsWorker ==
    /\ \A i \in 1..Len(calls["audio"]) : calls["audio"][i] # None
    /\ (aworker["audio"].pc = "exited")
           <=> (\E i \in 1..Len(taken["audio"]) : taken["audio"][i] = None)
    /\ aworker["audio"].pc = "exited" =>
          /\ taken["audio"] = SubSeq(enq["audio"], 1, C10_SentinelPos)
          /\ acked["audio"] = taken["audio"]
          /\ calls["audio"] = SubSeq(enq["audio"], 1, C10_SentinelPos - 1)
          /\ audio_queue = SubSeq(enq["audio"], C10_SentinelPos + 1,
                                  Len(enq["audio"]))

\* a, b, the signal and then c were enqueued: a and b were played, the
\* worker has exited and c stays on the queue
C10_Witness ==
    /\ enq["audio"] = <<Item(1), Item(2), None, Item(3)>>
    /\ aworker["audio"].pc = "exited"
    /\ calls["audio"] = <<Item(1), Item(2)>>
    /\ audio_queue = <<Item(3)>>

\* an agent whose model is the word human in any letter case
C11_ModelIsHuman(agent) ==
    /\ Len(agent.model) = 5
    /\ \A i \in 1..5 :
          agent.model[i] \in {<<"h", "u", "m", "a", "n">>[i],
                              <<"H", "U", "M", "A", "N">>[i]}

\* the agent of the model call the orchestrator awaits
C11_AwaitedAgent ==
    IF gpc \in {"ask", "intent", "decide"}
    THEN player_characters[turn.player].character_agent
    ELSE IF gpc = "feedback"
         THEN player_characters[turn.other_player].character_agent
         ELSE IF gpc \in {"describe", "answer", "assess", "resolve"}
              THEN dm_agent
              ELSE enforcer_agent

Tokens == {<<"o", "p", "e", "n", "a", "i">>, <<"O", "p", "e", "n", "A", "I">>,
           <<"O", "L", "L", "A", "M", "A">>, <<"g", "e", "m", "i", "n", "i">>,
           <<"|">>, <<"G", "p", "t">>, <<"4">>}

RECURSIVE Concat(_)
Concat(ts) == IF ts = <<>> THEN <<>> ELSE Head(ts) \o Concat(Tail(ts))

ModelStrings == {Concat(ts) : ts \in UNION {[1..n -> Tokens] : n \in 0..MaxTokens}}

InitParse ==
    /\ InitLLM /\ InitGM /\ InitAudio /\ InitPkg /\ InitMain /\ InitSpeech
    /\ InitVal /\ InitFlush /\ InitTasks /\ InitSuccess
    /\ model_string \in ModelStrings
    /\ parsed = NotParsed

\* call_model: provider, model_name = self.parse_model_string(model_string)
ParseModelString ==
    /\ parsed = NotParsed
    /\ parsed' = parse_model_string(model_string)
    /\ UNCHANGED <<model_string, llmVars, gmVars, audioVars, pkgVars, mainVars, speechVars, valVars, flushVars, taskVars, successVars>>

NextParse == ParseModelString

SpecParse == InitParse /\ [][NextParse]_vars

(***************************************************************************)
(* C13                                                                     *)
(***************************************************************************)
\* the positions of the separator in a string
C13_Bars(s) == {i \in 1..Len(s) : s[i] = "|"}

\* the text before and after the only separator
C13_Before(s) == SubSeq(s, 1, (CHOOSE i \in C13_Bars(s) : TRUE) - 1)
C13_After(s) == SubSeq(s, (CHOOSE i \in C13_Bars(s) : TRUE) + 1, Len(s))

\* provider|model with a recognized provider, in any letter case
C13_WellFormed(s) ==
    /\ Cardinality(C13_Bars(s)) = 1
    /\ Lower(C13_Before(s)) \in {<<"o", "p", "e", "n", "a", "i">>,
                                 <<"o", "l", "l", "a", "m", "a">>}

C13_Tag(s) == IF Lower(C13_Before(s)) = <<"o", "p", "e", "n", "a", "i">>
              THEN "OPENAI" ELSE "OLLAMA"

\* C13: parse_model_string returns the provider tag and the lower-cased
\* model name of every string provider|model whose provider is recognized
\* in any letter case, and fails with ConfigurationError on every other
\* string.
C13_ParseContract ==
    parsed # NotParsed =>
        IF C13_WellFormed(model_string)
        THEN /\ parsed.ok
             /\ parsed.provider = C13_Tag(model_string)
             /\ parsed.model_name = Lower(C13_After(model_string))
        ELSE /\ ~parsed.ok
             /\ parsed.provider = "ConfigurationError"

(***************************************************************************)
(* C14                                                                     *)
(***************************************************************************)
\* the inputs of a job lack a placeholder of its task's template
C14_Lacking(job) == \E ph \in job.task.placeholders : ph \notin DOMAIN job.kwargs

\* the worker's execute_task ends in this step
C14_Ends == worker.pc # "get" /\ worker'.pc = "get"

C14_Servable(job) ==
    LET m == parse_model_string(job.agent.model)
    IN m.ok /\ (m.provider = "OPENAI" \/ ~HasSchema(job.task))

PkgPlayers == <<"Brussae", "Shadowstep", "Eldara">>

\* the calls of a turn of the package orchestrator, in the order of
\* execute_player_turn
PkgStages ==
    <<"DESCRIBE_SITUATION", "ASK_QUESTIONS", "ANSWER_QUESTIONS", "DECLARE_INTENT",
      "PROVIDE_FEEDBACK", "MAKE_DECISION", "ASSESS_DIFFICULTY", "RESOLVE_ACTION",
      "SUMMARIZE_TURN">>

\* a call task_sequencer.execute_task(task_type, agent=...): the task and the
\* agent that executes it
PCall(task, agent) == [task |-> task, agent |-> agent]

\* the agent a stage of the turn of player i is executed by
PkgAgentOf(stage, i) ==
    IF PkgStages[stage] \in {"ASK_QUESTIONS", "DECLARE_INTENT", "MAKE_DECISION"}
    THEN PkgPlayers[i]
    ELSE IF PkgStages[stage] = "SUMMARIZE_TURN" THEN "chronicler" ELSE "dm"

\* for other_name, other_player in self.players.items():
\*     if other_name != player_name
\* the next such player behind position after (0 when there is none)
PkgNextOther(i, after) ==
    LET others == {k \in (after + 1)..Len(PkgPlayers) :
                       PkgPlayers[k] # PkgPlayers[i]}
    IN IF others = {} THEN 0
       ELSE CHOOSE k \in others : \A j \in others : k <= j

\* execute_player_turn of player i up to its first call
PkgBeginTurn(i) ==
    /\ tpc' = [stage |-> 1, other |-> 0]
    /\ feedback' = <<>>
    /\ pkgLog' = <<PCall(PkgStages[1], PkgAgentOf(1, i))>>

\* the turn goes on to the call of a stage, for stage 5 to the call of the
\* peer at position other
PkgGoOn(stage, other) ==
    /\ tpc' = [stage |-> stage, other |-> other]
    /\ pkgLog' = Append(pkgLog,
                        PCall(PkgStages[stage],
                              IF other # 0 THEN PkgPlayers[other]
                              ELSE PkgAgentOf(stage, rpc.i)))

\* the loop of stage 5 from position after up to the next peer's call; when
\* the roster is exhausted, the MAKE_DECISION call of stage 6
PkgFeedbackLoop(after) ==
    IF PkgNextOther(rpc.i, after) # 0
    THEN PkgGoOn(5, PkgNextOther(rpc.i, after))
    ELSE PkgGoOn(6, 0)

\* execute_round is called
R_ExecuteRound ==
    /\ rpc.pc = "idle"
    /\ current_round.number < MaxRounds
    /\ Len(current_round.turns_taken) < MaxTurnsTaken
    /\ rpc' = [pc |-> "turn", i |-> 1]
    /\ PkgBeginTurn(1)
    /\ UNCHANGED <<current_round, round_summaries, last_actions>>
    /\ UNCHANGED <<llmVars, gmVars, audioVars, pureVars, mainVars, speechVars, valVars, flushVars, taskVars, successVars>>
    /\ UNCHANGED current_situation

\* a call of the turn returns and the turn goes on to its next call; the
\* value a PROVIDE_FEEDBACK call returns is appended to feedback as it is
R_StageReturns ==
    /\ rpc.pc = "turn"
    /\ tpc.stage < Len(PkgStages)
    /\ IF PkgStages[tpc.stage] = "DECLARE_INTENT"
       THEN PkgFeedbackLoop(0) /\ UNCHANGED feedback
       ELSE IF PkgStages[tpc.stage] = "PROVIDE_FEEDBACK"
            THEN /\ feedback' = Append(feedback,
                        [name |-> PkgPlayers[tpc.other],
                         text |-> PCall("PROVIDE_FEEDBACK", PkgPlayers[tpc.other])])
                 /\ PkgFeedbackLoop(tpc.other)
            ELSE PkgGoOn(tpc.stage + 1, 0) /\ UNCHANGED feedback
    /\ UNCHANGED <<current_round, round_summaries, last_actions, rpc>>
    /\ UNCHANGED <<llmVars, gmVars, audioVars, pureVars, mainVars, speechVars, valVars, flushVars, taskVars, successVars>>
    /\ UNCHANGED current_situation

\* the SUMMARIZE_TURN call returns: execute_player_turn updates the state and
\* returns, and execute_round goes on with the next player or its summary
R_TurnReturns ==
    /\ rpc.pc = "turn"
    /\ tpc.stage = Len(PkgStages)
    /\ last_actions' = last_actions \cup {PkgPlayers[rpc.i]}
    /\ current_round' = [current_round EXCEPT
                             !.round_context = Append(@, PkgPlayers[rpc.i]),
                             !.turns_taken = Append(@, PkgPlayers[rpc.i])]
    /\ current_situation' = Situation(PkgPlayers[rpc.i], current_round.number)
    /\ IF rpc.i < Len(PkgPlayers)
       THEN /\ rpc' = [rpc EXCEPT !.i = @ + 1]
            /\ PkgBeginTurn(rpc.i + 1)
       ELSE /\ rpc' = [pc |-> "summarize", i |-> 0]
            /\ tpc' = [stage |-> 0, other |-> 0]
            /\ UNCHANGED <<feedback, pkgLog>>
    /\ UNCHANGED round_summaries
    /\ UNCHANGED <<llmVars, gmVars, audioVars, pureVars, mainVars, speechVars, valVars, flushVars, taskVars, successVars>>

\* a call of execute_player_turn raises: the exception leaves execute_round
R_TurnRaises ==
    /\ rpc.pc = "turn"
    /\ rpc' = [pc |-> "idle", i |-> 0]
    /\ tpc' = [stage |-> 0, other |-> 0]
    /\ UNCHANGED <<current_round, round_summaries, last_actions, feedback,
                   pkgLog>>
    /\ UNCHANGED <<llmVars, gmVars, audioVars, pureVars, mainVars, speechVars, valVars, flushVars, taskVars, successVars>>
    /\ UNCHANGED current_situation

\* the SUMMARIZE_ROUND call returns: the summary is appended and the next
\* round is created
R_SummaryReturns ==
    /\ rpc.pc = "summarize"
    /\ round_summaries' = Append(round_summaries, current_round.number)
    /\ current_round' = Round(current_round.number + 1)
    /\ rpc' = [pc |-> "idle", i |-> 0]
    /\ UNCHANGED <<last_actions, tpc, feedback, pkgLog>>
    /\ UNCHANGED <<llmVars, gmVars, audioVars, pureVars, mainVars, speechVars, valVars, flushVars, taskVars, successVars>>
    /\ UNCHANGED current_situation

\* the SUMMARIZE_ROUND call raises
R_SummaryRaises ==
    /\ rpc.pc = "summarize"
    /\ rpc' = [pc |-> "idle", i |-> 0]
    /\ UNCHANGED <<current_round, round_summaries, last_actions, tpc, feedback,
                   pkgLog>>
    /\ UNCHANGED <<llmVars, gmVars, audioVars, pureVars, mainVars, speechVars, valVars, flushVars, taskVars, successVars>>
    /\ UNCHANGED current_situation

\* GameState.start_new_round
R_StartNewRound ==
    /\ current_round.number < MaxRounds
    /\ current_round' = Round(current_round.number + 1)
    /\ last_actions' = {}
    /\ UNCHANGED <<round_summaries, rpc, tpc, feedback, pkgLog>>
    /\ UNCHANGED <<llmVars, gmVars, audioVars, pureVars, mainVars, speechVars, valVars, flushVars, taskVars, successVars>>
    /\ UNCHANGED current_situation

(***************************************************************************)
(* The state validators of dnd_game: validate_game_state (models/base.py)  *)
(* and GameState.validate_state (models/game_state.py), applied to the     *)
(* state of SpecRounds.                                                    *)
(***************************************************************************)
\* GameState.last_results, party_status.conditions and active_context: the
\* orchestrator never writes them (record_action and add_context have no
\* caller), start_new_round clears them
last_results == {}
party_status_conditions == {}
active_context == <<>>

\* ValidationResult(is_valid=len(errors) == 0, errors=errors,
\* warnings=warnings)
ValidationResult(errors, warnings) ==
    [is_valid |-> errors = {}, errors |-> errors, warnings |-> warnings]

\* the message of both validators for len(round_summaries) + 1 !=
\* current_round.number
RoundMismatch == <<"Round number doesn't match number of summaries">>

\* GameState.validate_state
validate_state ==
    ValidationResult(
        (IF Len(round_summaries) + 1 # current_round.number
         THEN {RoundMismatch} ELSE {})
        \cup {<<"Missing result for", c>> : c \in last_actions \ last_results}
        \cup (IF Cardinality(Range(current_round.turns_taken))
                     # Len(current_round.turns_taken)
              THEN {<<"Duplicate turns detected in current round">>} ELSE {}),
        (IF Len(active_context) > 10
         THEN {<<"Active context exceeds recommended size">>} ELSE {})
        \cup {<<"No status tracking for character", c>> :
                  c \in last_actions \ party_status_conditions})

\* validate_game_state(state): current_situation is the initial situation or
\* a text made around the literal "Current state:", and current_round is a
\* Round, so neither is missing
validate_game_state ==
    ValidationResult(
        {},
        (IF Len(round_summaries) + 1 # current_round.number
         THEN {RoundMismatch} ELSE {})
        \cup (IF current_round.turns_taken # <<>> /\ last_actions = {}
              THEN {<<"Turns taken but no last actions recorded">>} ELSE {}))

\* both validators are applied to the state; nothing in the orchestrator
\* calls them or reads what they return
V_Validate ==
    /\ validation' = [applied |-> TRUE,
                      validate_game_state |-> validate_game_state,
                      validate_state |-> validate_state]
    /\ UNCHANGED <<llmVars, gmVars, audioVars, pureVars, pkgVars, mainVars,
                   speechVars, flushVars, taskVars, successVars>>

NextRounds ==
    \/ V_Validate
    \/ R_ExecuteRound
    \/ R_StageReturns
    \/ R_TurnReturns
    \/ R_TurnRaises
    \/ R_SummaryReturns
    \/ R_SummaryRaises
    \/ R_StartNewRound

SpecRounds == Init /\ [][NextRounds]_vars

(***************************************************************************)
(* C15                                                                     *)
(***************************************************************************)
\* C15: in every reachable GameState, after any sequence of execute_round
\* calls (completed or aborted by a failing turn) and start_new_round calls,
\* len(round_summaries) + 1 == current_round.number.
C15_RoundMatchesSummaries == Len(round_summaries) + 1 = current_round.number

(***************************************************************************)
(* SpecMain: the session entry point main of run_game.py as shipped (its   *)
(* game loop is under `if False:`), with the tts worker, the playback      *)
(* worker it starts and the websocket handler that delivers typed input.   *)
(***************************************************************************)
\* main up to its first suspension: the workers and playback_task are
\* created, then get_user_input clears the event and waits
M_Start ==
    /\ mpc = "start"
    /\ mpc' = "input"
    /\ user_input_event' = FALSE
    /\ inputWoken' = [inputWoken EXCEPT ![0] = FALSE]
    /\ cpc' = [cpc EXCEPT ![0] = "wait_input"]
    /\ UNCHANGED <<llm_queue, llm_unfinished, result_list, joinWoken, retval,
                   myJob, user_input_value, worker, call, nextId, done, raised>>
    /\ UNCHANGED <<gmVars, audioVars, pureVars, pkgVars, speechVars, valVars, flushVars, taskVars, successVars>>

\* get_user_input returns to main
MainResumes ==
    /\ mpc = "input"
    /\ CanResume(0)
    /\ retval' = [retval EXCEPT ![0] = ResumeValue(0)]
    /\ cpc' = [cpc EXCEPT ![0] = "idle"]
    /\ UNCHANGED <<llm_queue, llm_unfinished, result_list, joinWoken, inputWoken,
                   myJob, user_input_event, user_input_value, worker, call,
                   nextId, done, raised>>
    /\ UNCHANGED <<gmVars, pureVars, pkgVars, speechVars, valVars, flushVars, taskVars, successVars>>

\* the body of main runs to its end: the roster and the GameMaster are built,
\* the two introduction texts are enqueued for synthesis, and main awaits
\* playback_task
M_Body ==
    /\ MainResumes
    /\ mpc' = "await_playback"
    /\ tts_queue' = tts_queue \o <<Item(nextItem), Item(nextItem + 1)>>
    /\ enq' = [enq EXCEPT !["tts"] = @ \o <<Item(nextItem), Item(nextItem + 1)>>]
    /\ nextItem' = nextItem + 2
    /\ UNCHANGED <<audio_playback_queue, audio_queue, aworker, taken, acked,
                   calls, device, failed>>

\* the body of main raises: the handler logs the error and the finally
\* block sends the termination signal and awaits playback_task
M_BodyRaises ==
    /\ MainResumes
    /\ mpc' = "finally_await"
    /\ audio_queue' = Append(audio_queue, None)
    /\ enq' = [enq EXCEPT !["audio"] = Append(@, None)]
    /\ UNCHANGED <<tts_queue, audio_playback_queue, aworker, taken, acked,
                   calls, nextItem, device, failed>>

\* await playback_task returns once playback_worker has left its loop: after
\* the await of the body the finally block still sends the signal and awaits
\* the finished task, after the await of the finally block main returns
M_Joined ==
    /\ mpc \in {"await_playback", "finally_await"}
    /\ aworker["audio"].pc = "exited"
    /\ mpc' = "returned"
    /\ IF mpc = "await_playback"
       THEN /\ audio_queue' = Append(audio_queue, None)
            /\ enq' = [enq EXCEPT !["audio"] = Append(@, None)]
       ELSE UNCHANGED <<audio_queue, enq>>
    /\ UNCHANGED <<tts_queue, audio_playback_queue, aworker, taken, acked,
                   calls, nextItem, device, failed>>
    /\ UNCHANGED <<llmVars, gmVars, pureVars, pkgVars, speechVars, valVars, flushVars, taskVars, successVars>>

\* what a websocket client may type when asked for the name of the DM
DMNames == {"Gary", "Mira", "Tom"}

NextMain ==
    \/ M_Start
    \/ M_Body
    \/ M_BodyRaises
    \/ M_Joined
    \/ \E v \in DMNames : SubmitInput(v)
    \/ T_Get
    \/ T_Synth
    \/ T_Handle
    \/ B_Get

SpecMain == Init /\ [][NextMain]_vars

\* every task of the event loop that can run is run, and the websocket
\* client supplies the input
FairSpecMain ==
    /\ SpecMain
    /\ WF_vars(M_Start)
    /\ WF_vars(M_Body \/ M_BodyRaises)
    /\ WF_vars(M_Joined)
    /\ WF_vars(\E v \in DMNames : SubmitInput(v))
    /\ WF_vars(T_Get) /\ WF_vars(T_Synth) /\ WF_vars(T_Handle)
    /\ WF_vars(B_Get)

(***************************************************************************)
(* C16                                                                     *)
(***************************************************************************)
\* C16: the session entry point terminates: once its body has finished or an
\* error has aborted it, and the pending human input has been supplied, main
\* sends the termination signal to the playback worker, the worker exits and
\* main returns.
C16_MainTerminates ==
    <>(/\ mpc = "returned"
       /\ aworker["audio"].pc = "exited"
       /\ \E i \in 1..Len(enq["audio"]) : enq["audio"][i] = None)

(***************************************************************************)
(* The audio workers under the scheduling of the event loop: a worker that *)
(* can take a step eventually takes it.                                    *)
(***************************************************************************)
FairSpecAudio ==
    /\ SpecAudio
    /\ WF_vars(T_Get) /\ WF_vars(T_Synth) /\ WF_vars(T_Handle)
    /\ WF_vars(A_Get) /\ WF_vars(A_Played) /\ WF_vars(A_Wake)
    /\ WF_vars(B_Get) /\ WF_vars(B_Played) /\ WF_vars(B_Wake)

(***************************************************************************)
(* C17                                                                     *)
(***************************************************************************)
\* the item is on queue q with no termination signal ahead of it
C17_Reachable(q, item) ==
    \E i \in 1..Len(enq[q]) :
        /\ enq[q][i] = item
        /\ \A j \in 1..(i - 1) : enq[q][j] # None

\* C17: a playback or synthesis failure on one queue item is caught inside
\* the worker: the worker stays alive, acknowledges that item, and every item
\* enqueued after it is still processed in order.
C17_FailureIsContained ==
    /\ [](\A q \in AudioQueues :
             /\ aworker[q].pc # "crashed"
             /\ \A i \in 1..Len(failed[q]) : failed[q][i] \in Range(acked[q])
             /\ IsPrefix(acked[q], taken[q])
             /\ IsPrefix(taken[q], enq[q]))
    /\ []<>(\A q \in AudioQueues : \A i \in 1..Len(enq[q]) :
                C17_Reachable(q, enq[q][i]) => enq[q][i] \in Range(acked[q]))

\* an item failed and an item enqueued behind it has been processed
C17_Witness ==
    \E q \in AudioQueues : \E i \in 1..Len(enq[q]) : \E j \in (i + 1)..Len(enq[q]) :
        /\ enq[q][i] \in Range(failed[q])
        /\ enq[q][j] \in Range(acked[q])
        /\ enq[q][j] \notin Range(failed[q])
        /\ aworker[q].pc = "get"

(***************************************************************************)
(* C18                                                                     *)
(***************************************************************************)
\* the template the claim gives the describe call of the running turn
C18_Template ==
    IF turnNo = 1 THEN "describe_initial_situation" ELSE "describe_situation"

\* a turn that returned began with the describe call and its enforcement
C18_StageOneRan ==
    gpc = "returned" =>
        /\ Len(stageLog) >= 4
        /\ stageLog[1] = Call("describe") /\ stageLog[2] = Ret("describe")
        /\ stageLog[3] = Call("enforce_describe")
        /\ stageLog[4] = Ret("enforce_describe")

\* the describe call of the turn carries the template of the claim
C18_TemplateOfTurn ==
    gpc = "describe" =>
        /\ \A i \in 1..Len(llm_queue) : llm_queue[i].task.name = C18_Template
        /\ worker.job.id # 0 => worker.job.task.name = C18_Template

\* C18: every turn executes the describe-situation stage (the narrator's
\* call, then its enforcement); the very first turn of the session uses the
\* initial-situation template and every later turn the regular situation
\* template.
C18_DescribeEveryTurn == C18_StageOneRan /\ C18_TemplateOfTurn

(***************************************************************************)
(* C19                                                                     *)
(***************************************************************************)
\* the stages whose model call produces an utterance of the narrator or of a
\* player
C19_Utterances ==
    {"describe", "ask", "answer", "intent", "feedback", "decide", "resolve"}

C19_Enforcements ==
    {"enforce_describe", "enforce_answer", "enforce_feedback", "enforce_decide",
     "enforce_resolve"}

\* C19: every narrator utterance and every player utterance produced in a
\* turn passes through the enforcement pass before it is appended to the
\* narrative or given to a later stage: the call that follows the return of
\* an utterance is its enforcement call.
C19_EveryUtteranceEnforced ==
    \A i \in 1..(Len(stageLog) - 1) :
        (stageLog[i].e = "ret" /\ stageLog[i].stage \in C19_Utterances) =>
            /\ stageLog[i + 1].e = "call"
            /\ stageLog[i + 1].stage \in C19_Enforcements

(***************************************************************************)
(* C20                                                                     *)
(***************************************************************************)
\* the names of a roster without the acting player, in roster order
C20_Others(names, acting) == SelectSeq(names, LAMBDA n : n # acting)

\* the names of the roster of the flat orchestrator
C20_FlatNames ==
    [i \in 1..Len(player_characters) |-> player_characters[i].character_name]

\* stage 5 of the flat orchestrator: the peer asked is never the acting
\* player, the feedbacks recorded are those of the other players in roster
\* order, each once, and each was recorded after its own enforcement call
C20_FlatStage5 ==
    LET given == [i \in 1..Len(turn.generated__feedbacks) |->
                      turn.generated__feedbacks[i][1]]
        acting == C20_FlatNames[turn.player]
    IN /\ gpc \in {"feedback", "enforce_feedback"} =>
             /\ turn.other_player # turn.player
             /\ given = C20_Others(SubSeq(C20_FlatNames, 1, turn.other_player - 1),
                                   acting)
       /\ gpc \in {"decide", "enforce_decide", "assess", "resolve",
                   "enforce_resolve"} =>
             given = C20_Others(C20_FlatNames, acting)
       /\ gpc \notin {"idle", "returned", "failed"} =>
             Len(given) = Count(stageLog, Ret("enforce_feedback"))
       /\ \A i \in 1..(Len(stageLog) - 1) :
             stageLog[i] = Ret("feedback") =>
                 stageLog[i + 1] = Call("enforce_feedback")

\* stage 5 of the package orchestrator: the same peers in the same order
C20_PkgPeers ==
    LET given == [i \in 1..Len(feedback) |-> feedback[i].name]
    IN rpc.pc = "turn" =>
          /\ tpc.stage = 5 =>
                /\ tpc.other # rpc.i
                /\ given = C20_Others(SubSeq(PkgPlayers, 1, tpc.other - 1),
                                      PkgPlayers[rpc.i])
          /\ tpc.stage > 5 => given = C20_Others(PkgPlayers, PkgPlayers[rpc.i])

\* what the package orchestrator records is the output of an enforcement
\* call that followed the peer's call
C20_PkgEnforced ==
    /\ \A k \in 1..Len(feedback) : feedback[k].text.task = "ENFORCE_PLAYER"
    /\ \A i \in 1..(Len(pkgLog) - 1) :
          pkgLog[i].task = "PROVIDE_FEEDBACK" =>
              pkgLog[i + 1].task = "ENFORCE_PLAYER"

\* C20: in the peer-feedback stage exactly the players of the roster other
\* than the acting player give feedback, each exactly once, in roster order,
\* the acting player never; each feedback is enforced individually
\* (role=player) before it is recorded.
C20_PeerFeedback == C20_FlatStage5 /\ C20_PkgPeers /\ C20_PkgEnforced

(***************************************************************************)
(* Claims on the information a stage of the turn is given.                 *)
(***************************************************************************)
\* the texts of this turn's peer feedback: what the peers answered and what
\* the enforcer made of it, recorded or in flight
C21_FeedbackTexts ==
    {turn.generated__feedbacks[i][2] : i \in 1..Len(turn.generated__feedbacks)}
    \cup (IF gpc = "enforce_feedback" THEN {turn.original_text} ELSE {})

\* the segments of the narrative made from this turn's peer feedback
C21_FeedbackSegs ==
    {Seg(player_characters[o].character_name, v) :
         o \in 1..Len(player_characters), v \in C21_FeedbackTexts}

\* the inputs of a peer's feedback call are the turn-start story, the
\* situation description, the declared intent and the names and sheets of
\* the peer and of the acting player, and nothing a peer answered
C21_PeerInputs(job) ==
    job.task.name = "provide_feedback" =>
        LET o == player_characters[turn.other_player]
            p == player_characters[turn.player]
        IN /\ DOMAIN job.kwargs =
                  {"other_character_name", "the_story_so_far",
                   "what_the_dm_just_told_you", "other_character_sheet",
                   "acting_character_name", "intended_action"}
           /\ job.kwargs.the_story_so_far = story
           /\ job.kwargs.what_the_dm_just_told_you =
                  turn.generated__situation_description
           /\ job.kwargs.intended_action = turn.generated__intent
           /\ job.kwargs.other_character_name = o.character_name
           /\ job.kwargs.other_character_sheet = o.character_sheet
           /\ job.kwargs.acting_character_name = p.character_name
           /\ job.kwargs.what_the_dm_just_told_you \notin C21_FeedbackTexts
           /\ job.kwargs.intended_action \notin C21_FeedbackTexts
           /\ \A i \in 1..Len(job.kwargs.the_story_so_far) :
                  job.kwargs.the_story_so_far[i] \notin C21_FeedbackSegs

\* C21: no peer sees another peer's feedback: the inputs of each peer's
\* feedback call depend only on the turn-start story, the situation
\* description and the declared intent, which stay what they were when the
\* first peer was asked, so that what one peer answers never changes the
\* inputs of another peer.
C21_PeersAreIsolated ==
    /\ [](/\ \A i \in 1..Len(llm_queue) : C21_PeerInputs(llm_queue[i])
          /\ worker.job.id # 0 => C21_PeerInputs(worker.job))
    /\ [][(gpc \in {"feedback", "enforce_feedback"}
              /\ gpc' \in {"feedback", "enforce_feedback", "decide"})
          => /\ story' = story
             /\ turn'.the_story_so_far = turn.the_story_so_far
             /\ turn'.generated__situation_description =
                    turn.generated__situation_description
             /\ turn'.generated__intent = turn.generated__intent]_vars

\* the second peer's feedback call is with the worker while the first
\* peer's feedback is on record
C21_Witness ==
    /\ worker.job.id # 0
    /\ worker.job.task.name = "provide_feedback"
    /\ Len(turn.generated__feedbacks) = 1
    /\ turn.generated__feedbacks[1][2].kind = "text"

(***************************************************************************)
(* Claims on the Enforcement Pass.                                         *)
(***************************************************************************)
\* the orchestrator awaits the enforcer's call
C22_Enforcing ==
    gpc \in {"enforce_describe", "enforce_answer", "enforce_feedback",
             "enforce_decide", "enforce_resolve"}

\* the value is nowhere in what the orchestrator and the game loop hold
C22_Gone(raw) ==
    /\ raw.kind = "text" =>
          /\ raw \notin Range(spawned')
          /\ \A i \in 1..Len(story') : story'[i].id # raw.id
          /\ retval'[0] # raw
          /\ raw \notin Range(result_list'[0])
    /\ turn' = NoTurn

\* C22: if an enforcement call fails, the turn is aborted and the unedited
\* text is never used: the step that takes the failed call's outcome
\* leaves execute_player_turn with an exception, issues no further call,
\* hands nothing to speech and leaves the game loop's story as it was, and
\* the unedited text is in no variable afterwards.
C22_EnforcementFailureAborts ==
    /\ [][(C22_Enforcing /\ CallRaised /\ gpc' # gpc)
          => /\ gpc' = "failed"
             /\ story' = story
             /\ llm_queue' = llm_queue /\ nextId' = nextId
             /\ spawned' = spawned
             /\ C22_Gone(turn.original_text)]_vars
    /\ []((failedStage \in {"enforce_describe", "enforce_answer",
                             "enforce_feedback", "enforce_decide",
                             "enforce_resolve"})
             => /\ gpc = "failed"
                /\ cpc[0] = "idle"
                /\ turn = NoTurn)

\* the enforcer's call on a peer's feedback failed and the turn was aborted
C22_Witness ==
    /\ failedStage = "enforce_feedback"
    /\ gpc = "failed"
    /\ myJob[0] \in raised

\* C23 (as claimed): the audit diff never affects control flow: when the
\* enforcer's call has returned its edited text, enforce_dm/enforce_player
\* return it and the turn proceeds to its next stage, whether the diff of
\* the original and the edited text can be computed or not.
C23_DiffNeverAffectsControl ==
    [][(/\ gpc \in {"enforce_describe", "enforce_answer", "enforce_feedback",
                    "enforce_decide", "enforce_resolve"}
        /\ gpc' # gpc
        /\ ~CallRaised
        /\ ResumeValue(0).kind = "text")
       => /\ gpc' # "failed"
          /\ retval'[0] = ResumeValue(0)]_vars

(***************************************************************************)
(* SpecSpeech: the first turn of Spec up to the narrator's assessment call, *)
(* on a provider that answers, with the websocket connections of server.py *)
(* and the enqueue_audio tasks that elevenlabs_tts creates for the         *)
(* utterances handed to tts().  A task runs without suspending up to its   *)
(* first send_text: text_to_speech_stream has no await in its body.        *)
(***************************************************************************)
\* list.remove(x): the list without its first x
Remove(list, x) ==
    LET k == CHOOSE i \in 1..Len(list) :
                 list[i] = x /\ \A j \in 1..(i - 1) : list[j] # x
    IN SubSeq(list, 1, k - 1) \o SubSeq(list, k + 1, Len(list))

\* a task that is over
TaskDone_(outcome) == [pc |-> "done", i |-> 0, client |-> outcome]

\* handle_audio_file, for client in connected_clients: the list iterator of
\* task k stands at position i of clients; send_text is called for the
\* websocket there, or the loop and the task are over
SendLoop(k, i, clients) ==
    IF i <= Len(clients)
    THEN /\ sent' = [sent EXCEPT ![clients[i]] = Append(@, k)]
         /\ audio_tasks' = [j \in 1..Max2(k, Len(audio_tasks)) |->
                IF j = k THEN [pc |-> "send", i |-> i, client |-> clients[i]]
                ELSE audio_tasks[j]]
    ELSE /\ sent' = sent
         /\ audio_tasks' = [j \in 1..Max2(k, Len(audio_tasks)) |->
                IF j = k THEN TaskDone_("returned") ELSE audio_tasks[j]]

\* websocket_endpoint: accept, connected_clients.append(websocket)
WS_Connect(c) ==
    /\ ~LoopBlocked
    /\ c \notin accepted
    /\ accepted' = accepted \cup {c}
    /\ connected_clients' = Append(connected_clients, c)
    /\ UNCHANGED <<audio_tasks, sent, disconnected>>
    /\ UNCHANGED <<llmVars, gmVars, audioVars, pureVars, pkgVars, mainVars,
                   valVars, flushVars, taskVars, successVars>>

\* the tasks elevenlabs_tts created start in the order of their creation:
\* enqueue_audio synthesizes the text (text_to_speech_stream, and once more
\* in handle_audio_file), copies the file and calls send_text for the first
\* websocket; an exception of the synthesis or the copy is logged and ends
\* the task
S_Start ==
    /\ ~LoopBlocked
    /\ Len(audio_tasks) < Len(spawned)
    /\ Len(audio_tasks) < MaxSpoken
    /\ \/ SendLoop(Len(audio_tasks) + 1, 1, connected_clients)
       \/ /\ audio_tasks' = Append(audio_tasks, TaskDone_("raised"))
          /\ sent' = sent
    /\ UNCHANGED <<connected_clients, accepted, disconnected>>
    /\ UNCHANGED <<llmVars, gmVars, audioVars, pureVars, pkgVars, mainVars,
                   valVars, flushVars, taskVars, successVars>>

\* send_text returns to task k: the loop goes on with the next websocket
S_Sent(k) ==
    /\ ~LoopBlocked
    /\ k \in 1..Len(audio_tasks)
    /\ audio_tasks[k].pc = "send"
    /\ SendLoop(k, audio_tasks[k].i + 1, connected_clients)
    /\ UNCHANGED <<connected_clients, accepted, disconnected>>
    /\ UNCHANGED <<llmVars, gmVars, audioVars, pureVars, pkgVars, mainVars,
                   valVars, flushVars, taskVars, successVars>>

\* send_text raises in task k: connected_clients.remove(client), which
\* raises itself when the websocket has been removed already, then the loop
\* goes on: the iterator moves one position on in the shortened list
S_SendRaises(k) ==
    /\ ~LoopBlocked
    /\ k \in 1..Len(audio_tasks)
    /\ audio_tasks[k].pc = "send"
    /\ IF audio_tasks[k].client \in Range(connected_clients)
       THEN /\ connected_clients' =
                   Remove(connected_clients, audio_tasks[k].client)
            /\ SendLoop(k, audio_tasks[k].i + 1,
                        Remove(connected_clients, audio_tasks[k].client))
       ELSE /\ audio_tasks' = [audio_tasks EXCEPT ![k] = TaskDone_("raised")]
            /\ UNCHANGED <<connected_clients, sent>>
    /\ UNCHANGED <<accepted, disconnected>>
    /\ UNCHANGED <<llmVars, gmVars, audioVars, pureVars, pkgVars, mainVars,
                   valVars, flushVars, taskVars, successVars>>

NextSpeech ==
    \/ G_StartTurn
    \/ G_EnforceDM
    \/ G_EnforcePlayer
    \/ G_DescribeEnforced
    \/ G_Asked
    \/ G_AnswerEnforced
    \/ G_Intent
    \/ G_FeedbackEnforced
    \/ G_DecideEnforced
    \/ \E v \in Inputs : SubmitInput(v)
    \/ W_Get
    \/ W_Exec
    \/ W_AttemptOk
    \/ \E c \in Clients : WS_Connect(c)
    \/ S_Start
    \/ \E k \in 1..MaxSpoken : S_Sent(k)
    \/ \E k \in 1..MaxSpoken : S_SendRaises(k)

SpecSpeech == Init /\ [][NextSpeech]_vars

(***************************************************************************)
(* Claims checked under SpecSpeech.                                        *)
(***************************************************************************)
\* a step of the orchestrator inside the turn
C24_OrchestratorStep ==
    \/ G_EnforceDM
    \/ G_EnforcePlayer
    \/ G_DescribeEnforced
    \/ G_Asked
    \/ G_AnswerEnforced
    \/ G_Intent
    \/ G_FeedbackEnforced
    \/ G_DecideEnforced

\* C24: narration-to-audio is fire-and-forget: the step in which the
\* orchestrator hands utterances to speech synthesis runs no part of their
\* background tasks and issues the model call of the next stage, and
\* whenever the call it awaits has been processed the orchestrator can take
\* its next step, whatever the synthesis and the delivery of the
\* utterances it handed over have come to.
C24_FireAndForget ==
    /\ [][spawned' # spawned =>
              /\ audio_tasks' = audio_tasks /\ sent' = sent
              /\ gpc' # gpc
              /\ cpc'[0] \in {"wait_join", "wait_input"}
              /\ cpc'[0] = "wait_join" =>
                    /\ Len(llm_queue') = Len(llm_queue) + 1
                    /\ llm_queue'[Len(llm_queue')].caller = 0]_vars
    /\ []((/\ ~LoopBlocked
           /\ gpc \in {"describe", "enforce_describe", "ask", "answer",
                       "enforce_answer", "intent", "feedback",
                       "enforce_feedback", "decide", "enforce_decide"}
           /\ \/ cpc[0] = "wait_join" /\ joinWoken[0]
              \/ cpc[0] = "wait_input" /\ inputWoken[0])
          => ENABLED C24_OrchestratorStep)

\* the narrator's answer call, two stages after the description was handed
\* to speech synthesis, is with the worker while the description is still
\* being sent to the first websocket
C24_Witness ==
    /\ Len(spawned) = 1
    /\ Len(audio_tasks) = 1
    /\ audio_tasks[1].pc = "send"
    /\ gpc = "answer"
    /\ worker.job.id # 0
    /\ worker.job.task.name = "answer_questions"

\* C25 (as claimed): every websocket is sent the utterances in the order
\* the orchestrator handed them to tts(), for every interleaving of the
\* background tasks.
C25_DeliveredInEmissionOrder ==
    \A c \in Clients :
        \A i, j \in 1..Len(sent[c]) : i < j => sent[c][i] < sent[c][j]

(***************************************************************************)
(* Claims on the resolve stage, checked under Spec.                        *)
(***************************************************************************)
\* C26 (as claimed): the difficulty the resolve stage consumes is always one
\* of the six tiers auto_succeed, easy, average, hard, super_hard,
\* auto_fail, so that the threshold lookup is defined for every
\* DifficultyAssessment that reaches stage 8.
C26_DifficultyIsATier ==
    (gpc = "assess" /\ CanResume(0) /\ ResumeValue(0).kind = "assessment")
    => /\ ResumeValue(0).tier \in {"auto_succeed", "easy", "average", "hard",
                                   "super_hard", "auto_fail"}
       /\ ~difficulty_thresholds(ResumeValue(0).tier).isNone

\* C27 (as claimed): a mismatch between the number of round summaries and
\* the round number is reported only as a warning by every state validator:
\* each validator lists it among its warnings and not among its errors, it
\* does not make the result invalid, and applying the validators changes
\* nothing of the game state.
C27_MismatchIsOnlyAWarning ==
    [][validation' # validation =>
          /\ UNCHANGED pkgVars
          /\ Len(round_summaries) + 1 # current_round.number =>
                \A v \in {validation'.validate_game_state,
                          validation'.validate_state} :
                    /\ RoundMismatch \in v.warnings
                    /\ RoundMismatch \notin v.errors
                    /\ v.is_valid = (v.errors \ {RoundMismatch} = {})]_vars

(***************************************************************************)
(* SpecFlush: main of run_game.py with its game loop block, which ends     *)
(* with flush_audio_queue, next to the playback_worker task main started.  *)
(***************************************************************************)
\* asyncio.Queue._unfinished_tasks of audio_queue
AudioUnfinished == Len(enq["audio"]) - Len(acked["audio"])

\* get_user_input has returned and the body of main runs up to the end of
\* its game loop: the two introduction texts are enqueued for synthesis;
\* the turns put nothing on audio_queue
M_Loop ==
    /\ MainResumes
    /\ mpc' = "loop"
    /\ tts_queue' = tts_queue \o <<Item(nextItem), Item(nextItem + 1)>>
    /\ enq' = [enq EXCEPT !["tts"] = @ \o <<Item(nextItem), Item(nextItem + 1)>>]
    /\ nextItem' = nextItem + 2
    /\ UNCHANGED <<audio_playback_queue, audio_queue, aworker, taken, acked,
                   calls, device, failed, flush>>

\* await audio_queue.put(None) of flush_audio_queue, then await worker
FlushPutsSentinel ==
    /\ audio_queue' = Append(audio_queue, None)
    /\ enq' = [enq EXCEPT !["audio"] = Append(@, None)]

\* flush_audio_queue up to its first suspension: the background tasks are
\* gathered, a playback_worker task is created, and audio_queue.join()
\* suspends unless every item put so far has been acknowledged; then the
\* termination signal is put at once, and the new task has its first step
\* ("start") ahead of a playback_task that waits in get()
F_Call ==
    /\ ~LoopBlocked
    /\ mpc = "loop"
    /\ flush.pc = "idle"
    /\ \A k \in 1..Len(audio_tasks) : audio_tasks[k].pc = "done"
    /\ IF AudioUnfinished = 0
       THEN /\ flush' = [pc |-> "await_worker",
                         worker |-> [pc |-> IF aworker["audio"].pc = "get"
                                            THEN "start" ELSE "get",
                                     item |-> NoItem]]
            /\ FlushPutsSentinel
       ELSE /\ flush' = [pc |-> "join",
                         worker |-> [pc |-> "get", item |-> NoItem]]
            /\ UNCHANGED <<audio_queue, enq>>
    /\ UNCHANGED <<tts_queue, audio_playback_queue, aworker, taken, acked,
                   calls, nextItem, device, failed>>
    /\ UNCHANGED <<llmVars, gmVars, pureVars, pkgVars, mainVars, speechVars,
                   valVars, taskVars, successVars>>

\* audio_queue.join() returns: the termination signal is put and the call
\* awaits the worker it created
F_Joined ==
    /\ ~LoopBlocked
    /\ flush.pc = "join"
    /\ AudioUnfinished = 0
    /\ flush' = [flush EXCEPT !.pc = "await_worker"]
    /\ FlushPutsSentinel
    /\ UNCHANGED <<tts_queue, audio_playback_queue, aworker, taken, acked,
                   calls, nextItem, device, failed>>
    /\ UNCHANGED <<llmVars, gmVars, pureVars, pkgVars, mainVars, speechVars,
                   valVars, taskVars, successVars>>

\* a step of the playback_worker task flush_audio_queue created
FlushWorkerStep(pc, item, took, ack, handed) ==
    /\ flush' = [flush EXCEPT !.worker = [pc |-> pc, item |-> item]]
    /\ device' = IF pc = "play" THEN device \cup {"flush"}
                 ELSE device \ {"flush"}
    /\ taken' = [taken EXCEPT !["audio"] = @ \o took]
    /\ acked' = [acked EXCEPT !["audio"] = @ \o ack]
    /\ calls' = [calls EXCEPT !["audio"] = @ \o handed]
    /\ UNCHANGED <<tts_queue, audio_playback_queue, aworker, enq, nextItem>>
    /\ UNCHANGED <<llmVars, gmVars, pureVars, pkgVars, mainVars, speechVars,
                   valVars, taskVars, successVars>>

\* the second playback_worker: await audio_queue.get()
FW_Get ==
    /\ ~LoopBlocked
    /\ flush.worker.pc \in {"start", "get"}
    /\ Len(audio_queue) > 0
    /\ audio_queue' = QueuePop(audio_queue).rest
    /\ LET file_path == QueuePop(audio_queue).item
       IN IF IsSentinel(file_path)
          THEN FlushWorkerStep("exited", NoItem, <<file_path>>, <<file_path>>,
                               <<>>)
          ELSE FlushWorkerStep("play", file_path, <<file_path>>, <<>>,
                               <<file_path>>)
    /\ NoFailure

\* the second playback_worker: play_audio_file returns or raises; the item
\* is acknowledged and the worker sleeps
FW_Played ==
    /\ ~LoopBlocked
    /\ flush.worker.pc = "play"
    /\ FlushWorkerStep("sleep", NoItem, <<>>, <<flush.worker.item>>, <<>>)
    /\ \/ NoFailure
       \/ failed' = [failed EXCEPT !["audio"] = Append(@, flush.worker.item)]
    /\ UNCHANGED audio_queue

\* the second playback_worker: asyncio.sleep(1) is over
FW_Wake ==
    /\ ~LoopBlocked
    /\ flush.worker.pc = "sleep"
    /\ FlushWorkerStep("get", NoItem, <<>>, <<>>, <<>>)
    /\ NoFailure
    /\ UNCHANGED audio_queue

\* await worker returns: flush_audio_queue returns to main, which awaits
\* playback_task
F_Return ==
    /\ ~LoopBlocked
    /\ flush.pc = "await_worker"
    /\ flush.worker.pc = "exited"
    /\ flush' = [flush EXCEPT !.pc = "returned"]
    /\ mpc' = "await_playback"
    /\ UNCHANGED <<llmVars, gmVars, audioVars, pureVars, pkgVars, speechVars,
                   valVars, taskVars, successVars>>

NextFlush ==
    \/ M_Start
    \/ \E v \in DMNames : SubmitInput(v)
    \/ M_Loop
    \/ E_Audio
    \/ T_Get
    \/ T_Synth
    \/ T_Handle
    \/ B_Get
    \/ B_Played
    \/ B_Wake
    \/ F_Call
    \/ F_Joined
    \/ FW_Get
    \/ FW_Played
    \/ FW_Wake
    \/ F_Return

SpecFlush == Init /\ [][NextFlush]_vars

(***************************************************************************)
(* C28                                                                     *)
(***************************************************************************)
\* the queues of core/job_manager.py and audio_queue of tts_elevenlabs.py
WorkerQueues == {"llm", "audio_playback", "tts", "user_input", "audio"}

\* the worker tasks that consume from a queue: the four of
\* initialize_workers never leave their loops; playback_task of main and
\* the worker of flush_audio_queue consume from audio_queue until they
\* take the termination signal
Consumers(q) ==
    IF q = "audio"
    THEN (IF mpc # "start" /\ aworker["audio"].pc # "exited" THEN 1 ELSE 0)
         + (IF flush.worker.pc \notin {"none", "exited"} THEN 1 ELSE 0)
    ELSE IF mpc # "start" THEN 1 ELSE 0

\* C28: from session initialization on, every queue has exactly one worker
\* task consuming from it: no operation starts a second consumer on a queue
\* that has one, and no consumer goes away.
C28_OneConsumerPerQueue ==
    mpc # "start" => \A q \in WorkerQueues : Consumers(q) = 1

(***************************************************************************)
(* C29                                                                     *)
(***************************************************************************)
\* who speaks in the segments of a completed turn of the player at position
\* i of the roster, in stage order: description, questions, answers, intent,
\* one feedback per peer in roster order, decision, assessment, roll,
\* outcome, resolution
C29_Speakers(i) ==
    LET name == player_characters[i].character_name
    IN <<"DM", name, "DM", name>>
       \o format_other_characters(name)
       \o <<name, "DM", "Roll", name, "DM">>

\* the segments of a narrative that are formatted from the result of a
\* model call carry the ids of their jobs in the order of the calls
C29_InCallOrder(segs) ==
    \A i, j \in 1..Len(segs) :
        (i < j /\ segs[i].kind \in {"text", "assessment"}
               /\ segs[j].kind \in {"text", "assessment"}) =>
            segs[i].id < segs[j].id

\* C29: the narrative a successful execute_player_turn returns is the
\* story-so-far it was given, whole and in order, followed by the segments
\* of this turn in stage order.
C29_StoryOnlyGrows ==
    [][(gpc # "returned" /\ gpc' = "returned") =>
          LET given == turn.the_story_so_far
              new == SubSeq(story', Len(given) + 1, Len(story'))
          IN /\ given = story
             /\ Len(story') = Len(given) + Len(C29_Speakers(turn.player))
             /\ SubSeq(story', 1, Len(given)) = given
             /\ [k \in 1..Len(new) |-> new[k].who] = C29_Speakers(turn.player)
             /\ C29_InCallOrder(new)]_vars

\* a second turn has returned: the story it was given held the segments of
\* the first turn
C29_Witness ==
    /\ gpc = "returned"
    /\ turnNo = 2
    /\ Len(story) = 1 + Len(C29_Speakers(1)) + Len(C29_Speakers(2))

(***************************************************************************)
(* SpecEither: a process runs one of the two orchestrators, the flat one   *)
(* of dnd/game_master.py or the one of the dnd_game package.               *)
(***************************************************************************)
\* the orchestrator of the dnd_game package has not been used
PkgUnused == InitPkg /\ InitVal

\* the flat orchestrator and its job queue have not been used
FlatUnused == InitLLM /\ InitGM

NextEither ==
    \/ PkgUnused /\ Next
    \/ FlatUnused /\ NextRounds

SpecEither == Init /\ [][NextEither]_vars

(***************************************************************************)
(* C30                                                                     *)
(***************************************************************************)
\* the flat turn fails: the first-turn flag keeps the value the turn gave
\* it (cleared unless the turn failed inside stage 1) and the story of the
\* game loop, assigned only from a returned narrative, is the one before
C30_FlatTurnFails ==
    (gpc # "failed" /\ gpc' = "failed") =>
        /\ very_first_time' = very_first_time
        /\ very_first_time' = (gpc = "enforce_describe")
        /\ story' = story
        /\ turnNo' = turnNo

\* the turn of the player at position rpc.i of the package fails: nothing
\* is written for this turn and nothing is taken back; current_situation,
\* which only a completed turn assigns, is still the one the turn before
\* left
C30_PkgTurnFails ==
    (rpc.pc = "turn" /\ rpc'.pc = "idle") =>
        /\ UNCHANGED <<last_actions, current_round, current_situation,
                       round_summaries>>
        /\ rpc.i > 1 => current_situation'.by = PkgPlayers[rpc.i - 1]

\* C30: a turn that fails rolls nothing back and writes nothing that is
\* written at the end of a turn: the flat orchestrator keeps its cleared
\* first-turn flag and its story, the package orchestrator keeps
\* last_actions, round_context, turns_taken and current_situation as the
\* earlier turns left them.
C30_NoRollback == [][C30_FlatTurnFails /\ C30_PkgTurnFails]_vars

\* a failed turn is behind: the flat orchestrator has failed after stage 1
\* with the flag cleared, or the package is back in its round loop with
\* the first player's turn recorded and the second player's turn failed
C30_Witness ==
    \/ /\ gpc = "failed" /\ ~very_first_time /\ turnNo = 2
    \/ /\ rpc.pc = "idle" /\ current_round.number = 1
       /\ current_round.turns_taken = <<PkgPlayers[1]>>
       /\ current_situation = Situation(PkgPlayers[1], 1)
       /\ last_actions = {PkgPlayers[1]}

(***************************************************************************)
(* SpecWorkers: the workers of initialize_workers and playback_worker on   *)
(* one event loop, with the work the program gives them: a caller of       *)
(* enqueue_llm_job, enqueue_tts_job and the termination signal on          *)
(* audio_queue (enqueue_audio_playback_job, a put of a file on audio_queue *)
(* and a put on user_input_queue have no caller).                          *)
(***************************************************************************)
NextWorkers ==
    \/ P_Call(1)
    \/ P_Return(1)
    \/ WorkerNext
    \/ E_Tts
    \/ T_Get
    \/ T_Synth
    \/ T_Handle
    \/ E_Sentinel
    \/ B_Get

SpecWorkers == Init /\ [][NextWorkers]_vars

(***************************************************************************)
(* C31                                                                     *)
(***************************************************************************)
\* the jobs llm_worker has dequeued and not acknowledged: the one in hand
C31_InHand == IF worker.pc = "get" THEN 0 ELSE 1

\* no job is acknowledged twice or while it is still being executed, the
\* count of unfinished jobs is the jobs still queued plus the one in hand,
\* and on every audio queue the acknowledged items are a prefix of the
\* dequeued ones, all of them but the item in hand
C31_AcksMatchDequeues ==
    /\ \A i, j \in 1..Len(done) : i # j => done[i] # done[j]
    /\ worker.pc # "get" => worker.job.id \notin Range(done)
    /\ llm_unfinished = Len(llm_queue) + C31_InHand
    /\ \A q \in AudioQueues :
          /\ IsPrefix(acked[q], taken[q])
          /\ Len(taken[q]) - Len(acked[q])
                 = (IF aworker[q].item = NoItem THEN 0 ELSE 1)

\* an acknowledgment of llm_worker is for the job in hand, whose
\* execute_task has returned a result into the caller's holder or has
\* raised, and the worker is back at llm_queue.get()
C31_AckStep ==
    done' # done =>
        /\ worker.pc # "get"
        /\ done' = Append(done, worker.job.id)
        /\ llm_unfinished' = llm_unfinished - 1
        /\ worker'.pc = "get"
        /\ (worker.job.id \in raised') # (result_list' # result_list)

\* C31: llm_worker acknowledges every job it dequeues exactly once, whether
\* execute_task returned or raised, and goes on with the next job; on no
\* queue are there more acknowledgments than dequeued items.
C31_EveryJobAckedOnce == []C31_AcksMatchDequeues /\ [][C31_AckStep]_vars

\* a job that raised and a job that returned have both been acknowledged,
\* the worker waits for the next job, and the tts worker has acknowledged
\* an item whose processing raised
C31_Witness ==
    /\ Len(done) = 2
    /\ \E i, j \in 1..2 : done[i] \in raised /\ done[j] \notin raised
    /\ worker.pc = "get"
    /\ Len(failed["tts"]) > 0
    /\ acked["audio"] = <<None>>

(***************************************************************************)
(* C32                                                                     *)
(***************************************************************************)
\* the resolution call of an action assessed auto_fail is flagged a failure
\* and the one of an action assessed auto_succeed a success
C32_AutoTierDecides(job) ==
    job.task.name = "resolve_action" =>
        /\ job.kwargs.difficulty_assessment.tier = "auto_fail" =>
              ~job.kwargs.did_roll_succeed
        /\ job.kwargs.difficulty_assessment.tier = "auto_succeed" =>
              job.kwargs.did_roll_succeed

\* C32: for every roll in 0..99 an action assessed auto_fail never succeeds
\* and an action assessed auto_succeed always succeeds.
C32_AutoTiersIgnoreRoll ==
    /\ \A i \in 1..Len(llm_queue) : C32_AutoTierDecides(llm_queue[i])
    /\ worker.job.id # 0 => C32_AutoTierDecides(worker.job)

(***************************************************************************)
(* C33                                                                     *)
(***************************************************************************)
\* the requests of get_user_input a step releases
C33_Released == {c \in Callers : inputWoken'[c] /\ ~inputWoken[c]}

\* a request starts to wait with the event cleared and no release pending;
\* it is released only by a submission made while it waits; it returns the
\* value submitted last; and one submission releases one request
C33_Step ==
    /\ \A c \in Callers :
          /\ (cpc[c] # "wait_input" /\ cpc'[c] = "wait_input") =>
                ~user_input_event' /\ ~inputWoken'[c]
          /\ c \in C33_Released =>
                /\ cpc[c] = "wait_input"
                /\ user_input_event'
                /\ user_input_value' # Nothing
          /\ (cpc[c] = "wait_input" /\ cpc'[c] # "wait_input") =>
                /\ inputWoken[c]
                /\ retval'[c] = user_input_value
                /\ user_input_value # Nothing
    /\ Cardinality(C33_Released) <= 1

\* C33: get_user_input returns only a value submitted through
\* enqueue_user_input_job after the call began waiting, an input submitted
\* while no request is pending is not returned by a later request, and one
\* submitted input is not returned to two requests.
C33_OneInputOneRequest == [][C33_Step]_vars

(***************************************************************************)
(* C34                                                                     *)
(***************************************************************************)
\* C34: current_round.turns_taken never holds a player twice and is a prefix
\* of the roster order, also when execute_round is called again after a
\* turn of the round failed.
C34_TurnsTakenFollowRoster ==
    LET turns_taken == current_round.turns_taken
    IN /\ \A i, j \in 1..Len(turns_taken) :
             i # j => turns_taken[i] # turns_taken[j]
       /\ IsPrefix(turns_taken, PkgPlayers)

(***************************************************************************)
(* TaskSequencer.get_task_sequence (core/tasks.py): the declared successors *)
(* of a task type, compared with the calls execute_player_turn issues.      *)
(***************************************************************************)
\* sequences.get(task_type, [])
get_task_sequence(task_type) ==
    CASE task_type = "DESCRIBE_SITUATION" -> {"ASK_QUESTIONS"}
      [] task_type = "ASK_QUESTIONS" -> {"ANSWER_QUESTIONS"}
      [] task_type = "ANSWER_QUESTIONS" -> {"DECLARE_INTENT"}
      [] task_type = "DECLARE_INTENT" -> {"PROVIDE_FEEDBACK"}
      [] task_type = "PROVIDE_FEEDBACK" -> {"MAKE_DECISION"}
      [] task_type = "MAKE_DECISION" -> {"ASSESS_DIFFICULTY"}
      [] task_type = "ASSESS_DIFFICULTY" -> {"RESOLVE_ACTION"}
      [] task_type = "RESOLVE_ACTION" -> {"SUMMARIZE_ROUND"}
      [] task_type = "SUMMARIZE_ROUND" -> {"DESCRIBE_SITUATION"}
      [] OTHER -> {}

\* C35: the task types execute_round issues refine the successor relation of
\* get_task_sequence: every task type issued directly after task type T is
\* listed in get_task_sequence(T).
C35_IssuedRefinesSequence ==
    \A i \in 1..(Len(pkgLog) - 1) :
        pkgLog[i + 1].task \in get_task_sequence(pkgLog[i].task)

(***************************************************************************)
(* SpecTasks: the tasks of SpecSpeech with the bookkeeping of             *)
(* background_tasks, for utterances handed to tts() by any caller.        *)
(* elevenlabs_tts creates the task, registers task_done_callback and       *)
(* appends the task to background_tasks without suspending, so the list    *)
(* holds the positions of spawned in order, less the ones a callback has   *)
(* removed.  The loop runs a task's done callbacks after the task's last   *)
(* step, in the order of their registration; enqueue_audio catches every   *)
(* Exception, so a task never hands one to asyncio.gather.                 *)
(***************************************************************************)
\* the utterances handed to tts() in SpecTasks
MaxTasks == 2

\* task_done_callback has removed task k from the list
RemovedByCallback(k) ==
    \E n \in 1..Len(done_callbacks) :
        done_callbacks[n] = [task |-> k, found |-> TRUE]

\* the list background_tasks
background_tasks ==
    SelectSeq([k \in 1..Len(spawned) |-> k], LAMBDA k : ~RemovedByCallback(k))

\* the enqueue_audio task at position k of spawned is over
TaskCompleted(k) == k <= Len(audio_tasks) /\ audio_tasks[k].pc = "done"

\* a loop that runs the done callback of a task any number of times
CallbackPending_Again(k) == TaskCompleted(k)

\* task.add_done_callback(task_done_callback): the loop has the callback of
\* task k to run, once
CallbackPending(k) ==
    /\ TaskCompleted(k)
    /\ \A n \in 1..Len(done_callbacks) : done_callbacks[n].task # k

\* task_done_callback(task): background_tasks.remove(task), which raises
\* ValueError when the list does not hold the task
task_done_callback(k) ==
    /\ ~LoopBlocked
    /\ CallbackPending(k)
    /\ Len(done_callbacks) < MaxTasks + 1
    /\ done_callbacks' = Append(done_callbacks,
                                [task |-> k, found |-> ~RemovedByCallback(k)])
    /\ UNCHANGED gather
    /\ UNCHANGED <<llmVars, gmVars, audioVars, pureVars, pkgVars, mainVars,
                   speechVars, valVars, flushVars, successVars>>

\* await_all_tasks_complete up to its first suspension: with an empty list
\* it returns at once, else it awaits asyncio.gather(*background_tasks)
A_Call ==
    /\ ~LoopBlocked
    /\ gather.pc # "gather"
    /\ gather' = IF background_tasks = <<>>
                 THEN [pc |-> "returned", tasks |-> {}]
                 ELSE [pc |-> "gather", tasks |-> Range(background_tasks)]
    /\ UNCHANGED done_callbacks
    /\ UNCHANGED <<llmVars, gmVars, audioVars, pureVars, pkgVars, mainVars,
                   speechVars, valVars, flushVars, successVars>>

\* the future of asyncio.gather is done when the last of its tasks is, its
\* own done callback running behind task_done_callback: the call returns
A_Return ==
    /\ ~LoopBlocked
    /\ gather.pc = "gather"
    /\ \A k \in gather.tasks : TaskCompleted(k) /\ ~CallbackPending(k)
    /\ gather' = [gather EXCEPT !.pc = "returned"]
    /\ UNCHANGED done_callbacks
    /\ UNCHANGED <<llmVars, gmVars, audioVars, pureVars, pkgVars, mainVars,
                   speechVars, valVars, flushVars, successVars>>

\* tts(text, connected_clients, voice_id) of dnd/game_master.py: the call of
\* elevenlabs_tts, which creates the task and returns
Tts_Call ==
    /\ ~LoopBlocked
    /\ Len(spawned) < MaxTasks
    /\ spawned' = Append(spawned, Text(Len(spawned) + 1))
    /\ UNCHANGED <<very_first_time, gpc, turn, story, turnNo, stageLog, failedStage>>
    /\ UNCHANGED <<llmVars, audioVars, extVars>>

NextTasks ==
    \/ Tts_Call
    \/ \E c \in Clients : WS_Connect(c)
    \/ S_Start
    \/ \E k \in 1..MaxTasks : S_Sent(k)
    \/ \E k \in 1..MaxTasks : S_SendRaises(k)
    \/ \E k \in 1..MaxTasks : task_done_callback(k)
    \/ A_Call
    \/ A_Return

SpecTasks == Init /\ [][NextTasks]_vars

\* the list holds no task twice, every spawned task that is not over, and
\* of the tasks that are over only those whose callback the loop has yet to
\* run; no call of the callback found the list without its task, and no
\* task has had two calls
C36_ListIsTheLiveTasks ==
    /\ \A i, j \in 1..Len(background_tasks) :
           i # j => background_tasks[i] # background_tasks[j]
    /\ \A k \in 1..Len(spawned) :
           (\E i \in 1..Len(background_tasks) : background_tasks[i] = k)
               <=> (~(k <= Len(audio_tasks) /\ audio_tasks[k].pc = "done")
                    \/ \A n \in 1..Len(done_callbacks) :
                           done_callbacks[n].task # k)
    /\ \A n \in 1..Len(done_callbacks) :
           /\ done_callbacks[n].found
           /\ done_callbacks[n].task \in 1..Len(audio_tasks)
           /\ audio_tasks[done_callbacks[n].task].pc = "done"
           /\ \A m \in 1..Len(done_callbacks) :
                  m # n => done_callbacks[m].task # done_callbacks[n].task

\* a call that suspends awaits exactly the tasks of the list at the call,
\* and it returns only when each of them is over
C36_GatherStep ==
    /\ (gather'.pc = "gather" /\ gather.pc # "gather")
           => /\ gather'.tasks = {background_tasks[i] :
                                      i \in 1..Len(background_tasks)}
              /\ gather'.tasks # {}
    /\ (gather'.pc = "returned" /\ gather.pc = "gather")
           => /\ gather'.tasks = gather.tasks
              /\ \A k \in gather.tasks :
                     /\ k <= Len(audio_tasks)
                     /\ audio_tasks[k].pc = "done"
                     /\ \A i \in 1..Len(background_tasks) :
                            background_tasks[i] # k
    /\ (gather'.pc = "returned" /\ gather.pc # "gather" /\ gather' # gather)
           => background_tasks = <<>>

\* C36: background_tasks holds exactly the spawned audio tasks that have
\* not yet completed: each task is added once when spawned and removed
\* exactly once when it completes (the removal never fails), and
\* await_all_tasks_complete returns only when every task that was in the
\* list at its call has completed.
C36_BackgroundTasks == []C36_ListIsTheLiveTasks /\ [][C36_GatherStep]_vars

\* two tasks were spawned and are over, each removed by its callback, and
\* a call that awaited the two of them has returned
C36_Witness ==
    /\ Len(spawned) = 2
    /\ Len(done_callbacks) = 2
    /\ background_tasks = <<>>
    /\ gather.pc = "returned"
    /\ Cardinality(gather.tasks) = 2

(***************************************************************************)
(* FairSpecFlush: SpecFlush on an event loop that runs every task that can *)
(* take a step, with a websocket client that supplies the input.           *)
(***************************************************************************)
FairSpecFlush ==
    /\ SpecFlush
    /\ WF_vars(M_Start) /\ WF_vars(M_Loop)
    /\ WF_vars(\E v \in DMNames : SubmitInput(v))
    /\ WF_vars(T_Get) /\ WF_vars(T_Synth) /\ WF_vars(T_Handle)
    /\ WF_vars(B_Get) /\ WF_vars(B_Played) /\ WF_vars(B_Wake)
    /\ WF_vars(F_Joined) /\ WF_vars(F_Return)
    /\ WF_vars(FW_Get) /\ WF_vars(FW_Played) /\ WF_vars(FW_Wake)

\* the termination signal of flush_audio_queue is the only one of SpecFlush:
\* playback_task of main has not taken it, and when the call has returned
\* every item put before the signal has been acknowledged and the worker
\* it created has left its loop
C37_OwnSentinel ==
    /\ aworker["audio"].pc # "exited"
    /\ flush.pc = "returned" =>
           /\ flush.worker.pc = "exited"
           /\ \A i, j \in 1..Len(enq["audio"]) :
                  (i < j /\ enq["audio"][j] = None) =>
                      \E n \in 1..Len(acked["audio"]) :
                          acked["audio"][n] = enq["audio"][i]

\* C37: flush_audio_queue always terminates, also when another playback
\* worker is already consuming the same queue: every item enqueued before
\* the call has been processed, the sentinel it sends is consumed by the
\* worker it started, and that worker has exited when it returns.
C37_FlushTerminates ==
    /\ []C37_OwnSentinel
    /\ (flush.pc \in {"join", "await_worker"}) ~> (flush.pc = "returned")

(***************************************************************************)
(* SpecDetermine: GameMaster._determine_success of the package, applied to *)
(* every DifficultyAssessment the model call can return.  The draw         *)
(* random.uniform(0, 100) is a float in [0, 100); the model takes the      *)
(* draws at the whole numbers 0 .. RollRange - 1.                          *)
(***************************************************************************)
\* class Difficulty(Enum): the values
Difficulty ==
    {"always_succeed", "easy", "average", "hard", "super_hard", "always_fail"}

\* DifficultyAssessment: the two fields _determine_success reads; pydantic
\* accepts every combination (auto_resolve defaults to False)
DifficultyAssessments == [difficulty : Difficulty, auto_resolve : BOOLEAN]

\* difficulty_chances.get(value, 0)
difficulty_chances(value) ==
    CASE value = "easy" -> 80
      [] value = "average" -> 60
      [] value = "hard" -> 40
      [] value = "super_hard" -> 20
      [] OTHER -> 0

\* _determine_success(assessment) when random.uniform draws roll: the pair
\* (success, roll) it returns
determine_success(assessment, roll) ==
    IF assessment.auto_resolve
    THEN [success |-> assessment.difficulty = "always_succeed", roll |-> 0]
    ELSE [success |-> roll <= difficulty_chances(assessment.difficulty),
          roll |-> roll]

\* the model call has returned some assessment
InitDetermine ==
    /\ InitLLM /\ InitGM /\ InitAudio /\ InitPure /\ InitPkg /\ InitMain
    /\ InitSpeech /\ InitVal /\ InitFlush /\ InitTasks
    /\ determined \in {NotDetermined(a) : a \in DifficultyAssessments}

\* success, roll = self._determine_success(assessment)
DetermineSuccess ==
    /\ ~determined.called
    /\ \E roll \in 0..(RollRange - 1) :
          determined' =
              [assessment |-> determined.assessment,
               called |-> TRUE,
               success |-> determine_success(determined.assessment, roll).success,
               roll |-> determine_success(determined.assessment, roll).roll]
    /\ UNCHANGED <<llmVars, gmVars, audioVars, pureVars, pkgVars, mainVars,
                   speechVars, valVars, flushVars, taskVars>>

NextDetermine == DetermineSuccess

SpecDetermine == InitDetermine /\ [][NextDetermine]_vars

\* C38: in the package variant, _determine_success returns success for every
\* action assessed always_succeed and failure for every action assessed
\* always_fail, whatever the value of the assessment's auto_resolve flag and
\* whatever the roll.
C38_AlwaysTiersDecide ==
    determined.called =>
        /\ determined.assessment.difficulty = "always_succeed"
               => determined.success
        /\ determined.assessment.difficulty = "always_fail"
               => ~determined.success

(***************************************************************************)
(* SpecClients: the websocket connections of server.py, opened and closed  *)
(* by their clients, under the broadcasts of handle_audio_file for the     *)
(* utterances handed to tts().                                             *)
(***************************************************************************)
\* websocket_endpoint: receive_text raises WebSocketDisconnect, the handler
\* logs it and the finally clause calls connected_clients.remove(websocket),
\* which raises ValueError when the list no longer holds the websocket
WS_Disconnect(c) ==
    /\ ~LoopBlocked
    /\ c \in accepted
    /\ disconnected[c] = "no"
    /\ IF c \in Range(connected_clients)
       THEN /\ connected_clients' = Remove(connected_clients, c)
            /\ disconnected' = [disconnected EXCEPT ![c] = "removed"]
       ELSE /\ disconnected' = [disconnected EXCEPT ![c] = "absent"]
            /\ UNCHANGED connected_clients
    /\ UNCHANGED <<accepted, audio_tasks, sent>>
    /\ UNCHANGED <<llmVars, gmVars, audioVars, pureVars, pkgVars, mainVars,
                   valVars, flushVars, taskVars, successVars>>

NextClients ==
    \/ Tts_Call
    \/ \E c \in Clients : WS_Connect(c)
    \/ \E c \in Clients : WS_Disconnect(c)
    \/ S_Start
    \/ \E k \in 1..MaxTasks : S_Sent(k)
    \/ \E k \in 1..MaxTasks : S_SendRaises(k)

SpecClients == Init /\ [][NextClients]_vars

\* a broadcast that has called send_text ends by leaving its loop, not by
\* the ValueError of a remove, and then send_text has been called for every
\* websocket of the list
C39_BroadcastStep ==
    \A k \in 1..Len(audio_tasks) :
        (audio_tasks[k].pc = "send" /\ audio_tasks'[k].pc = "done") =>
            /\ audio_tasks'[k].client = "returned"
            /\ \A n \in 1..Len(connected_clients') :
                   \E m \in 1..Len(sent'[connected_clients'[n]]) :
                       sent'[connected_clients'[n]][m] = k

\* C39: each websocket client is removed from connected_clients exactly
\* once: for every interleaving of a client disconnect with an audio
\* broadcast whose send to that client fails, no removal is attempted on a
\* client that is already absent, and no other client is skipped by the
\* broadcast loop.
C39_RemovedExactlyOnce ==
    /\ [](\A c \in Clients : disconnected[c] # "absent")
    /\ [][C39_BroadcastStep]_vars

=============================================================================
